---- MODULE Spec2Model ----
(***************************************************************************)
(* TheConverter: the conversion cache (api/utils/cache.py), the rate       *)
(* limiter (api/utils/rate_limiter.py), the segmented pipeline             *)
(* (api/utils/segment_processor.py) and the /convert handler (api/main.py).*)
(*                                                                         *)
(* Each subsystem has its own specification over the shared variables:     *)
(*   SpecCache    the cache, its store directory and the /convert handler  *)
(*   SpecCacheCalls    the cache with nothing else touching its store      *)
(*   SpecCacheDisk     the cache with failing and interrupted index writes *)
(*   SpecCacheRestart  the cache restarted over damaged index files        *)
(*   SpecCacheDst      the cache across a daylight saving transition       *)
(*   SpecKey      the pure cache-key derivation on drawn inputs            *)
(*   SpecLimiter  the rate limiter under concurrent callers                *)
(*   SpecLimiterApi  one caller using check, get_remaining and reset       *)
(*   SpecLimiterAnyConfig  the limiter under unvalidated configurations    *)
(*   SpecLimiterSweep  the limiter with its periodic sweep                 *)
(*   SpecBatch    one BatchProcessor running batches concurrently          *)
(*   SpecCacheConcurrent  cache calls interleaved at their suspension      *)
(*                        points                                           *)
(*   SpecConcurrentRuns   two process_large_file invocations in one        *)
(*                        output directory                                 *)
(*   SpecService  requests passing the rate limit middleware               *)
(*   SpecPipeline one process_large_file invocation                        *)
(*   SpecMergeOrder  the order of the segments from split to merge         *)
(*                                                                         *)
(* Modelling conventions                                                   *)
(*  - Strings are TLA+ strings and f-strings are concatenations (\o).      *)
(*  - sha256 and md5 are collision-free: each is an injective tagging of   *)
(*    its input; everything around them is computed as the code does.      *)
(*  - The cache clock counts abstract units; every set reads a clock value *)
(*    strictly later than the previous one (a set hashes and renames a     *)
(*    file before it reads time.time()).                                   *)
(*  - The limiter clock counts seconds; one check_rate_limit call reads    *)
(*    one clock value. Token counts are kept as exact sixtieths of a token *)
(*    (tokens * 60), which is exact for whole-second clocks.               *)
(*  - Sizes are in abstract units; max_cache_size * 0.8 is compared as     *)
(*    10 * total <= 8 * max_cache_size.                                    *)
(***************************************************************************)
EXTENDS Integers, Sequences, FiniteSets, TLC

VARIABLES
    \* the conversion cache and the /convert handler
    index,        \* ConversionCache.index: entries in dict (insertion) order
    files,        \* the file system: path -> size, for the paths that exist
    index_file,   \* the contents of cache_index.json
    disk,         \* whether writes to the cache directory work: ok, readonly, full
    now,          \* the clock of the cache (time.time())
    zone,         \* the local time zone: when its UTC offset changes, and by how much
    last,         \* the last completed cache operation (history)
    response,     \* the last response of the service (history)
    \* the cache key derivation on drawn inputs
    triples,      \* the two (digest, format, quality) triples drawn
    keys,         \* the cache keys derived from them
    \* the rate limiter
    minute_requests,  \* RateLimiter.minute_requests: client -> timestamps
    hour_requests,    \* RateLimiter.hour_requests
    day_requests,     \* RateLimiter.day_requests
    tokens,           \* RateLimiter.tokens, in sixtieths of a token
    last_update,      \* RateLimiter.last_update
    config,           \* RateLimiter.config
    clock,            \* time.time(), in seconds
    ticks,            \* how often the clock has advanced
    pending,          \* caller -> the client whose check it is about to run
    log,              \* client -> the checks made for it, in order (history)
    overlapped,       \* whether a check ran while another caller held a request
                      \* of the same client (history)
    remaining,        \* what get_remaining returned, while it is the last thing
                      \* that happened (history)
    cleanup_task,     \* the task running start_cleanup_task: whether it was
                      \* started, sleeps or died, and the passes it has begun
    \* one process_large_file invocation
    stage,            \* idle, splitting, converting, merging, then returning
                      \* or unwinding (in the finally block), then done,
                      \* failed or cancelled
    callback,         \* progress_callback: none, ok, raises
    temp_dir,         \* whether the scratch directory exists
    segments,         \* the sequence indices of the split segments, as listed
    seg_idx,          \* segments handled so far by convert_segments
    seg_status,       \* per segment: pending, done, failed
    converted,        \* converted_segments
    concat_input,     \* the segment list given to the concat operation
    returned,         \* what process_large_file returned
    sink,             \* the values delivered to the progress sink, in order
    ops               \* the operations invoked so far, in order, each with its
                      \* outcome: mkdir, probe, split, encode, concat and the
                      \* invocations of the progress sink (history)
    \* one BatchProcessor
VARIABLES
    max_concurrent,   \* BatchProcessor.max_concurrent
    semaphore,        \* the value of BatchProcessor.semaphore
    batches,          \* BatchProcessor.batches: batch id -> BatchJob
    tasks             \* <<batch id, file index>> -> where the task running
                      \* _process_single_file is: created, converting, done
    \* coroutines running concurrently on one event loop
VARIABLES
    setting,          \* caller -> the ConversionCache.set it is suspended in
    runs,             \* invocation -> the process_large_file it is suspended in
    dirs,             \* scratch directory -> the invocations whose segments
                      \* it holds, for the directories that exist
    concat_file       \* the contents of concat_list.txt in the output directory

cacheVars == <<index, files, index_file, disk, now, zone, last, response>>
keyVars == <<triples, keys>>
limiterVars == <<minute_requests, hour_requests, day_requests, tokens, last_update,
                 config, clock, ticks, pending, log, overlapped, remaining,
                 cleanup_task>>
pipelineVars == <<stage, callback, temp_dir, segments, seg_idx, seg_status, converted,
                  concat_input, returned, sink, ops>>
batchVars == <<max_concurrent, semaphore, batches, tasks>>
setVars == <<setting>>
runVars == <<runs, dirs, concat_file>>
vars == <<cacheVars, keyVars, limiterVars, pipelineVars, batchVars, setVars, runVars>>

\* what the actions of one subsystem leave alone
CacheOnly == UNCHANGED <<keyVars, limiterVars, pipelineVars, batchVars, setVars, runVars>>
KeyOnly == UNCHANGED <<cacheVars, limiterVars, pipelineVars, batchVars, setVars, runVars>>
LimiterOnly == UNCHANGED <<cacheVars, keyVars, pipelineVars, batchVars, setVars, runVars>>
PipelineOnly == UNCHANGED <<cacheVars, keyVars, limiterVars, batchVars, setVars, runVars>>
BatchOnly == UNCHANGED <<cacheVars, keyVars, limiterVars, pipelineVars, setVars, runVars>>
SetOnly == UNCHANGED <<keyVars, limiterVars, pipelineVars, batchVars, runVars>>
RunOnly == UNCHANGED <<cacheVars, keyVars, limiterVars, pipelineVars, batchVars, setVars>>

----------------------------------------------------------------------------
(* Bounds of the cache model *)

\* cache capacity in size units (max_cache_size_mb * 1024 * 1024 in the code)
MaxCacheSize == 10
\* largest artifact a conversion produces, in size units
MaxOutputSize == 12
\* maximum entry age in clock units (max_age_hours in the code)
MaxAge == 1
\* the cache clock stops here
MaxNow == 3

Contents == {"A"}
Formats == {"mp3", "mp3_hq"}
Qualities == {"high", "hq_high"}
OutputSizes == {MaxOutputSize - 8, MaxOutputSize - 4, MaxOutputSize}
Metadata == {"meta"}

None == "None"
OutputPath == "temp/out_converted"

----------------------------------------------------------------------------
(* File system primitives *)

\* an existence test that takes every path for present
exists_always(fs, p) == TRUE

exists(fs, p) == p \in DOMAIN fs

unlink(fs, p) == [q \in (DOMAIN fs) \ {p} |-> fs[q]]

\* a copy: the source stays where it was
copy(fs, src, dst) ==
    [q \in (DOMAIN fs) \cup {dst} |-> IF q = dst THEN fs[src] ELSE fs[q]]

rename(fs, src, dst) ==
    [q \in ((DOMAIN fs) \ {src}) \cup {dst} |-> IF q = dst THEN fs[src] ELSE fs[q]]

create(fs, p, size) ==
    [q \in (DOMAIN fs) \cup {p} |-> IF q = p THEN size ELSE fs[q]]

----------------------------------------------------------------------------
(* Python dict operations on the index (a dict keeps insertion order and an *)
(* assignment to an existing key keeps that key's position)                 *)

IndexKeys(idx) == {idx[i].key : i \in 1..Len(idx)}

Pos(idx, k) == CHOOSE i \in 1..Len(idx) : idx[i].key = k

Lookup(idx, k) == idx[Pos(idx, k)]

Put(idx, e) ==
    IF e.key \in IndexKeys(idx)
    THEN [idx EXCEPT ![Pos(idx, e.key)] = e]
    ELSE Append(idx, e)

\* a del that leaves the entry in the dict
DelNothing(idx, k) == idx

Del(idx, k) == SelectSeq(idx, LAMBDA e : e.key # k)

RECURSIVE TotalSize(_)
TotalSize(idx) ==
    IF idx = <<>> THEN 0 ELSE Head(idx).size + TotalSize(Tail(idx))

\* sorted(self.index.items(), key=created_at): a stable sort
InsertByCreatedAt(s, e) ==
    LET k == Cardinality({i \in 1..Len(s) : s[i].created_at <= e.created_at})
    IN  SubSeq(s, 1, k) \o <<e>> \o SubSeq(s, k + 1, Len(s))

RECURSIVE sorted_by_created_at(_)
sorted_by_created_at(idx) ==
    IF idx = <<>> THEN <<>>
    ELSE InsertByCreatedAt(sorted_by_created_at(SubSeq(idx, 1, Len(idx) - 1)),
                           idx[Len(idx)])

----------------------------------------------------------------------------
(* ConversionCache *)

sha256(bytes) == "sha256(" \o bytes \o ")"

md5(s) == "md5(" \o s \o ")"

_compute_file_hash(bytes) == sha256(bytes)

_generate_cache_key(file_hash, output_format, quality) ==
    md5(file_hash \o "_" \o output_format \o "_" \o quality)

cache_filename(cache_key, output_format) ==
    "cache/" \o cache_key \o "." \o output_format

CacheEntry(key, file_hash, output_format, quality, file_path, created_at, size, metadata) ==
    [key |-> key, file_hash |-> file_hash, output_format |-> output_format,
     quality |-> quality, file_path |-> file_path, created_at |-> created_at,
     size |-> size, metadata |-> metadata]

\* json.dump of the index into cache_index.json
\* The contents of cache_index.json: absent (never written), json (a complete
\* json.dump of an index), partial (the text of a dump of the entries, cut
\* short), garbage (a dump of the entries with bytes overwritten, no longer
\* the text of an index) or unreadable (a dump of the entries that open
\* refuses to read). The field entries of a json file is what json.load and
\* CacheEntry(**v) make of its text.
AbsentFile == [kind |-> "absent", entries |-> <<>>]
PartialFile(idx) == [kind |-> "partial", entries |-> idx]
GarbageFile(idx) == [kind |-> "garbage", entries |-> idx]
UnreadableFile(idx) == [kind |-> "unreadable", entries |-> idx]

\* JSON values: the encoder writes a str as a string, an int or float as a
\* number and a dict as an object
JsonString(v) == [t |-> "string", v |-> v]
JsonNumber(v) == [t |-> "number", v |-> v]
JsonObject(v) == [t |-> "object", v |-> v]

\* {k: asdict(v) for k, v in self.index.items()} as json.dump writes it: one
\* member per entry, in dict order, named by the dict key
json_dumps(idx) ==
    [i \in 1..Len(idx) |->
        [name |-> idx[i].key,
         value |-> [key |-> JsonString(idx[i].key),
                    file_hash |-> JsonString(idx[i].file_hash),
                    output_format |-> JsonString(idx[i].output_format),
                    quality |-> JsonString(idx[i].quality),
                    file_path |-> JsonString(idx[i].file_path),
                    created_at |-> JsonNumber(idx[i].created_at),
                    size |-> JsonNumber(idx[i].size),
                    metadata |-> JsonObject(idx[i].metadata)]]]

\* {k: CacheEntry(**v) for k, v in data.items()}: the dict key is the name of
\* the member, the fields are the decoded values of the object
json_loads(text) ==
    [i \in 1..Len(text) |->
        LET v == text[i].value
        IN  [CacheEntry(v.key.v, v.file_hash.v, v.output_format.v, v.quality.v,
                        v.file_path.v, v.created_at.v, v.size.v, v.metadata.v)
             EXCEPT !.key = text[i].name]]

\* a save that writes nothing
save_nothing(idx, saved) == saved

json_dump(idx) == [kind |-> "json", entries |-> json_loads(json_dumps(idx))]

\* _save_index on the file contents saved: open(..., 'w') fails on a read-only
\* directory and leaves the file as it was; on a full disk the file is
\* truncated and the text is cut short; either exception is caught and printed
_save_index(idx, saved) ==
    CASE disk = "ok" -> json_dump(idx)
      [] disk = "readonly" -> saved
      [] disk = "full" -> PartialFile(idx)

\* a load that takes whatever entries the file holds
load_any(file) == file.entries

\* _load_index: any exception leaves the index empty
_load_index(file) == IF file.kind = "json" THEN file.entries ELSE <<>>

\* the eviction loop of _cleanup_if_needed over the sorted entries
RECURSIVE evict_loop(_, _, _, _, _)
evict_loop(entries, total_size, idx, fs, removed) ==
    IF entries = <<>> \/ 10 * total_size <= 8 * MaxCacheSize
    THEN [index |-> idx, files |-> fs, removed |-> removed]
    ELSE LET entry == Head(entries)
             there == exists(fs, entry.file_path)
         IN  evict_loop(Tail(entries),
                        IF there THEN total_size - entry.size ELSE total_size,
                        Del(idx, entry.key),
                        IF there THEN unlink(fs, entry.file_path) ELSE fs,
                        Append(removed, entry))

\* a cleanup that starts only above twice the capacity
cleanup_above_twice(total_size) == total_size > 2 * MaxCacheSize

cleanup_triggered(total_size) == total_size > MaxCacheSize

_cleanup_if_needed(idx, fs, saved) ==
    IF cleanup_triggered(TotalSize(idx))
    THEN LET r == evict_loop(sorted_by_created_at(idx), TotalSize(idx), idx, fs, <<>>)
         IN  [index |-> r.index, files |-> r.files,
              index_file |-> _save_index(r.index, saved), removed |-> r.removed]
    ELSE [index |-> idx, files |-> fs, index_file |-> saved, removed |-> <<>>]

\* a zone whose UTC offset never changes
FixedZone == [at |-> 0, delta |-> 0]

\* the UTC offset the local zone has at timestamp t
utcoffset(t) == IF t >= zone.at THEN zone.delta ELSE 0

\* datetime.fromtimestamp(t): the naive local time of timestamp t
fromtimestamp(t) == t + utcoffset(t)

\* datetime.now() at clock value t
datetime_now(t) == fromtimestamp(t)

\* line 146: a difference of two naive local times
age(t, created_at) == datetime_now(t) - fromtimestamp(created_at)

expired(a) == a > MaxAge

\* ConversionCache.get at clock value t
get(idx, fs, saved, t, bytes, output_format, quality) ==
    LET cache_key == _generate_cache_key(_compute_file_hash(bytes), output_format, quality)
    IN  IF cache_key \notin IndexKeys(idx)
        THEN [index |-> idx, files |-> fs, index_file |-> saved, result |-> None,
              why |-> "miss"]
        ELSE LET entry == Lookup(idx, cache_key)
             IN  IF ~exists(fs, entry.file_path)
                 THEN [index |-> Del(idx, cache_key), files |-> fs,
                       index_file |-> _save_index(Del(idx, cache_key), saved), result |-> None,
                       why |-> "missing"]
                 ELSE IF expired(age(t, entry.created_at))
                 THEN [index |-> Del(idx, cache_key), files |-> unlink(fs, entry.file_path),
                       index_file |-> _save_index(Del(idx, cache_key), saved), result |-> None,
                       why |-> "expired"]
                 ELSE [index |-> idx, files |-> fs, index_file |-> saved,
                       result |-> entry.file_path, why |-> "hit"]

\* ConversionCache.set at clock value t; output_file.rename raises when the
\* output file does not exist, and then nothing has changed
set(idx, fs, saved, t, bytes, output_file, output_format, quality, metadata) ==
    LET file_hash == _compute_file_hash(bytes)
        cache_key == _generate_cache_key(file_hash, output_format, quality)
        cached_file == cache_filename(cache_key, output_format)
    IN  IF ~exists(fs, output_file)
        THEN [index |-> idx, files |-> fs, index_file |-> saved, removed |-> <<>>,
              before |-> idx, raised |-> TRUE]
        ELSE LET fs1 == rename(fs, output_file, cached_file)
                 entry == CacheEntry(cache_key, file_hash, output_format, quality,
                                     cached_file, t, fs1[cached_file], metadata)
                 idx1 == Put(idx, entry)
                 c == _cleanup_if_needed(idx1, fs1, _save_index(idx1, saved))
             IN  [index |-> c.index, files |-> c.files, index_file |-> c.index_file,
                  removed |-> c.removed, before |-> idx1, raised |-> FALSE]

\* ConversionCache.get_stats: the entry count and the indexed bytes
get_stats(idx) == [total_entries |-> Len(idx), total_size |-> TotalSize(idx)]

\* a clear that removes the files and keeps the index
clear_files_only(idx, fs, saved) ==
    [index |-> idx,
     files |-> [q \in (DOMAIN fs) \ {idx[i].file_path : i \in 1..Len(idx)} |-> fs[q]],
     index_file |-> _save_index(idx, saved)]

\* ConversionCache.clear
clear(idx, fs, saved) ==
    [index |-> <<>>,
     files |-> [q \in (DOMAIN fs) \ {idx[i].file_path : i \in 1..Len(idx)} |-> fs[q]],
     index_file |-> _save_index(<<>>, saved)]

----------------------------------------------------------------------------
(* History records *)

NoOp == [op |-> "none"]

GetRecord(bytes, output_format, quality, r) ==
    [op |-> "get", bytes |-> bytes, output_format |-> output_format,
     quality |-> quality, result |-> r.result, why |-> r.why]

SetRecord(bytes, output_format, quality, size, r) ==
    [op |-> "set", bytes |-> bytes, output_format |-> output_format,
     quality |-> quality, size |-> size, removed |-> r.removed, before |-> r.before,
     raised |-> r.raised, saved |-> disk = "ok"]

----------------------------------------------------------------------------
(* Actions of the cache specification *)

InitCache ==
    /\ index = <<>>
    /\ files = << >>
    /\ index_file = AbsentFile
    /\ disk = "ok"
    /\ now = 0
    /\ zone = FixedZone
    /\ last = NoOp
    /\ response = None

\* a caller looks a conversion up
Get ==
    \E bytes \in Contents, output_format \in Formats, quality \in Qualities :
        LET r == get(index, files, index_file, now, bytes, output_format, quality)
        IN  /\ index' = r.index
            /\ files' = r.files
            /\ index_file' = r.index_file
            /\ last' = GetRecord(bytes, output_format, quality, r)
            /\ UNCHANGED <<now, zone, response>>
            /\ UNCHANGED disk
            /\ CacheOnly

\* a caller hands a freshly converted output file of some size to the cache
Set ==
    \E bytes \in Contents, output_format \in Formats, quality \in Qualities,
       size \in OutputSizes, metadata \in Metadata :
        /\ now < MaxNow
        /\ LET t == now + 1
               r == set(index, create(files, OutputPath, size), index_file, t,
                        bytes, OutputPath, output_format, quality, metadata)
           IN  /\ index' = r.index
               /\ files' = r.files
               /\ index_file' = r.index_file
               /\ now' = t
               /\ last' = SetRecord(bytes, output_format, quality, size, r)
               /\ UNCHANGED <<zone, response>>
               /\ UNCHANGED disk
               /\ CacheOnly

Clear ==
    LET r == clear(index, files, index_file)
    IN  /\ index' = r.index
        /\ files' = r.files
        /\ index_file' = r.index_file
        /\ last' = [op |-> "clear"]
        /\ UNCHANGED <<now, zone, response>>
        /\ UNCHANGED disk
        /\ CacheOnly

\* time passes
Tick ==
    /\ now < MaxNow
    /\ now' = now + 1
    /\ last' = [op |-> "tick"]
    /\ UNCHANGED <<index, files, index_file, zone, response>>
    /\ UNCHANGED disk
    /\ CacheOnly

\* time passes and the local zone changes its UTC offset (a daylight saving
\* transition); a zone changes its offset once in the span modelled
ZoneShift(delta) ==
    /\ now < MaxNow
    /\ zone = FixedZone
    /\ now' = now + 1
    /\ zone' = [at |-> now + 1, delta |-> delta]
    /\ last' = [op |-> "shift"]
    /\ UNCHANGED <<index, files, index_file, response>>
    /\ UNCHANGED disk
    /\ CacheOnly

\* writes of cache_index.json start or stop failing: "readonly" makes
\* open(..., 'w') raise, "full" makes the write raise after the truncation
DiskChange(d) ==
    /\ d # disk
    /\ disk' = d
    /\ last' = [op |-> "disk"]
    /\ UNCHANGED <<index, files, index_file, now, zone, response>>
    /\ CacheOnly

\* the index file is damaged or made unreadable from outside
CorruptIndexFile(file) ==
    /\ index_file.kind = "json"
    /\ index_file' = file
    /\ last' = [op |-> "corrupt"]
    /\ UNCHANGED <<index, files, disk, now, zone, response>>
    /\ CacheOnly

\* the process starts again: ConversionCache.__init__ loads the index
Restart ==
    /\ index' = _load_index(index_file)
    /\ last' = [op |-> "restart", file |-> index_file.kind]
    /\ UNCHANGED <<files, index_file, disk, now, zone, response>>
    /\ CacheOnly

\* what cache_index.json holds when the process is killed inside the
\* _save_index call of line 206: before open(..., 'w') the old contents, after
\* it a text cut short, after the last write the new contents
interrupted_save(idx, saved, point) ==
    CASE point = "before_open" -> saved
      [] point = "cut_short" -> PartialFile(idx)
      [] point = "written" -> json_dump(idx)

\* a set whose process is killed inside its first _save_index, followed by
\* the next start of the process
InterruptedSet ==
    \E bytes \in Contents, output_format \in Formats, quality \in Qualities,
       size \in OutputSizes, point \in {"before_open", "cut_short", "written"} :
        /\ now < MaxNow
        /\ disk = "ok"
        /\ LET t == now + 1
               key == _generate_cache_key(_compute_file_hash(bytes), output_format, quality)
               cached_file == cache_filename(key, output_format)
               fs1 == rename(create(files, OutputPath, size), OutputPath, cached_file)
               idx1 == Put(index, CacheEntry(key, _compute_file_hash(bytes), output_format,
                                             quality, cached_file, t, size, "meta"))
               file1 == interrupted_save(idx1, index_file, point)
           IN  /\ files' = fs1
               /\ index_file' = file1
               /\ index' = _load_index(file1)
               /\ now' = t
               /\ last' = [op |-> "interrupted", point |-> point,
                           persisted |-> index_file, new |-> idx1]
        /\ UNCHANGED <<disk, zone, response>>
        /\ CacheOnly

\* something outside the program deletes an artifact from the cache store
OutOfBandDelete ==
    \E p \in DOMAIN files :
        /\ files' = unlink(files, p)
        /\ last' = [op |-> "delete", path |-> p]
        /\ UNCHANGED <<index, index_file, now, zone, response>>
        /\ UNCHANGED disk
        /\ CacheOnly

\* POST /convert, from the cache lookup to the response. The external inputs
\* are the upload, whether the detector reports a large file, whether the
\* converter succeeds and the size of what it writes to output_path.
convert_file(bytes, output_format, quality, use_segmentation, success, size) ==
    LET g == get(index, files, index_file, now, bytes, output_format, quality)
        miss == [index |-> g.index, files |-> g.files, index_file |-> g.index_file,
                 now |-> now]
    IN  IF g.result # None
        THEN miss @@ [response |-> [status |-> 200, body |-> g.result],
                      last |-> [op |-> "convert", hit |-> TRUE, stored |-> FALSE,
                                segmented |-> FALSE, executed |-> None]]
        ELSE IF use_segmentation
        \* process_large_file is called with a keyword it does not accept
        THEN miss @@ [response |-> [status |-> 500, body |-> "TypeError"],
                      last |-> [op |-> "convert", hit |-> FALSE, stored |-> FALSE,
                                segmented |-> TRUE, executed |-> None]]
        ELSE IF ~success
        THEN miss @@ [response |-> [status |-> 500, body |-> "Conversion failed"],
                      last |-> [op |-> "convert", hit |-> FALSE, stored |-> FALSE,
                                segmented |-> FALSE,
                                executed |-> "media_converter.convert"]]
        ELSE LET r == set(g.index, create(g.files, OutputPath, size), g.index_file,
                          now + 1, bytes, OutputPath, output_format, quality, "meta")
             IN  [index |-> r.index, files |-> r.files, index_file |-> r.index_file,
                  now |-> now + 1,
                  \* the response headers stat output_path before any byte is sent
                  response |-> IF ~r.raised /\ exists(r.files, OutputPath)
                               THEN [status |-> 200, body |-> OutputPath]
                               ELSE [status |-> 500, body |-> "FileNotFoundError"],
                  last |-> [op |-> "convert", hit |-> FALSE, stored |-> ~r.raised,
                            segmented |-> FALSE,
                            executed |-> "media_converter.convert"]]

\* what the handler can find about an upload: the detected duration in
\* seconds and the size in MB, at a threshold and just above it
Uploads == {[file_duration |-> 300, file_size_mb |-> 50],
            [file_duration |-> 301, file_size_mb |-> 50],
            [file_duration |-> 300, file_size_mb |-> 51]}

\* line 317
use_segmentation(file_duration, file_size_mb) ==
    file_duration > 300 \/ file_size_mb > 50

Convert ==
    \E bytes \in Contents, output_format \in Formats, quality \in Qualities,
       upload \in Uploads, success \in BOOLEAN, size \in OutputSizes :
        /\ now < MaxNow
        /\ LET r == convert_file(bytes, output_format, quality,
                                 use_segmentation(upload.file_duration,
                                                  upload.file_size_mb),
                                 success, size)
           IN  /\ index' = r.index
               /\ files' = r.files
               /\ index_file' = r.index_file
               /\ now' = r.now
               /\ response' = r.response
               /\ last' = r.last
               /\ UNCHANGED zone
               /\ UNCHANGED disk
               /\ CacheOnly

NextCache ==
    \/ Get
    \/ Set
    \/ Clear
    \/ Tick
    \/ OutOfBandDelete
    \/ Convert

\* the cache driven by its callers alone: nothing else touches the cache store
NextCacheCalls ==
    \/ Get
    \/ Set
    \/ Clear
    \/ Tick
    \/ Convert

\* the cache with failing writes, a damaged index file and restarts
NextCacheDisk ==
    \/ Set
    \/ \E d \in {"ok", "readonly", "full"} : DiskChange(d)
    \/ \E file \in {GarbageFile(index_file.entries), UnreadableFile(index_file.entries)} :
          CorruptIndexFile(file)
    \/ Restart
    \/ InterruptedSet

\* the cache restarted over index files damaged from outside
NextCacheRestart ==
    \/ Get
    \/ Set
    \/ Clear
    \/ \E file \in {PartialFile(index_file.entries), GarbageFile(index_file.entries),
                     UnreadableFile(index_file.entries)} : CorruptIndexFile(file)
    \/ Restart

\* the cache on a host whose zone has a daylight saving transition
NextCacheDst ==
    \/ Get
    \/ Set
    \/ Tick
    \/ \E delta \in {-1, 1} : ZoneShift(delta)

----------------------------------------------------------------------------
(* Cache key derivation on drawn inputs *)

Digests == {_compute_file_hash(bytes) : bytes \in {"A", "B"}}
Triples == Digests \X (Formats \cup {"wav"}) \X Qualities

IdleKey ==
    /\ triples = <<>>
    /\ keys = <<>>

InitKey ==
    /\ triples \in Triples \X Triples
    /\ keys = <<>>

GenerateKeys ==
    /\ keys = <<>>
    /\ keys' = <<_generate_cache_key(triples[1][1], triples[1][2], triples[1][3]),
                 _generate_cache_key(triples[2][1], triples[2][2], triples[2][3])>>
    /\ UNCHANGED triples
    /\ KeyOnly

NextKey == GenerateKeys

\* C4: equal triples derive equal keys and triples that differ in any element
\* derive different keys, also for formats and qualities containing "_".
C4_KeyInjective ==
    keys # <<>> => (keys[1] = keys[2] <=> triples[1] = triples[2])

----------------------------------------------------------------------------
(* Claims about the cache *)

\* the result of a get issued now for the triple of the last set
GetAfterSet ==
    get(index, files, index_file, now, last.bytes, last.output_format, last.quality)

\* C2 (as stated): a get issued immediately after a set of the same triple
\* returns the stored artifact path, and that path exists, whatever the
\* artifact's size.
C2_GetAfterSetAlwaysHits ==
    last.op = "set" =>
        /\ GetAfterSet.result # None
        /\ exists(GetAfterSet.files, GetAfterSet.result)

\* C2 (amended): when the set triggers no eviction (the indexed sizes total at
\* most the capacity after the insert) the immediate get returns the stored
\* path <key>.<format> and the file exists; an artifact larger than the
\* capacity is evicted by the set that stored it and the get returns absent.
C2_GetAfterSetHitsUnlessEvicted ==
    last.op = "set" =>
        /\ TotalSize(last.before) <= MaxCacheSize =>
              /\ GetAfterSet.result =
                    cache_filename(_generate_cache_key(_compute_file_hash(last.bytes),
                                       last.output_format, last.quality),
                                   last.output_format)
              /\ exists(GetAfterSet.files, GetAfterSet.result)
              /\ files[GetAfterSet.result] = last.size
        /\ last.size > MaxCacheSize => GetAfterSet.result = None

C2_Witness ==
    /\ last.op = "set"
    /\ Len(last.before) >= 2
    /\ TotalSize(last.before) <= MaxCacheSize
    /\ GetAfterSet.result # None

\* C3: on a cache miss followed by a successful conversion that was stored in
\* the cache, the /convert response is a success.
C3_StoredConversionIsServed ==
    (last.op = "convert" /\ last.stored) => response.status = 200

RECURSIVE SumSizes(_, _)
SumSizes(s, n) == IF n = 0 THEN 0 ELSE s[n].size + SumSizes(s, n - 1)

\* C9: whenever a set leaves the indexed total above the capacity, entries are
\* removed in ascending creation order, every removed entry is no younger than
\* every survivor, and no entry is removed once the total of the remaining
\* entries is at most 80% of the capacity.
C9_EvictionOldestFirstAndStops ==
    (last.op = "set" /\ TotalSize(last.before) > MaxCacheSize) =>
        /\ \A i, j \in 1..Len(last.removed) :
              i < j => last.removed[i].created_at <= last.removed[j].created_at
        /\ \A i \in 1..Len(last.removed), j \in 1..Len(index) :
              last.removed[i].created_at <= index[j].created_at
        /\ \A i \in 1..Len(last.removed) :
              10 * (TotalSize(last.before) - SumSizes(last.removed, i - 1))
                  > 8 * MaxCacheSize

\* C10: after any set has returned, in any sequence of calls from an empty
\* cache, the indexed sizes total at most the capacity.
C10_TotalWithinCapacity == TotalSize(index) <= MaxCacheSize

C10_Witness ==
    /\ last.op = "set"
    /\ last.removed # <<>>
    /\ index # <<>>
    /\ TotalSize(last.before) > MaxCacheSize

\* the cache key of a triple
KeyOf(bytes, output_format, quality) ==
    _generate_cache_key(_compute_file_hash(bytes), output_format, quality)

\* a get that finds nothing and changes nothing
GetChangesNothing(idx, fs, saved, bytes, output_format, quality) ==
    LET g == get(idx, fs, saved, now, bytes, output_format, quality)
    IN  /\ g.result = None
        /\ g.index = idx
        /\ g.files = fs
        /\ g.index_file = saved

\* C11: when the backing file of a triple's entry is gone, the next get for the
\* triple returns absent and removes the entry (the stats entry count drops by
\* one, no file is touched), and a repeated get returns absent and changes
\* nothing; the state a get leaves after such a removal has no entry for the
\* triple.
C11_MissingFileSelfHeals ==
    /\ \A bytes \in Contents, output_format \in Formats, quality \in Qualities :
          LET key == KeyOf(bytes, output_format, quality)
              g == get(index, files, index_file, now, bytes, output_format, quality)
          IN  (key \in IndexKeys(index) /\ Lookup(index, key).file_path \notin DOMAIN files) =>
                  /\ g.result = None
                  /\ key \notin IndexKeys(g.index)
                  /\ get_stats(g.index).total_entries
                        = get_stats(index).total_entries - 1
                  /\ g.files = files
                  /\ g.index_file = json_dump(g.index)
                  /\ GetChangesNothing(g.index, g.files, g.index_file,
                                       bytes, output_format, quality)
    /\ (last.op = "get" /\ last.why = "missing") =>
          /\ KeyOf(last.bytes, last.output_format, last.quality) \notin IndexKeys(index)
          /\ GetChangesNothing(index, files, index_file,
                               last.bytes, last.output_format, last.quality)

C11_Witness ==
    /\ last.op = "get"
    /\ last.why = "missing"
    /\ last.result = None
    /\ index # <<>>

C13_IndexedFilesExist ==
    \A i \in 1..Len(index) : index[i].file_path \in DOMAIN files

C13_Witness ==
    /\ last.op = "get"
    /\ last.why = "expired"
    /\ Len(index) >= 1
    /\ \E p \in DOMAIN files : \A i \in 1..Len(index) : index[i].file_path # p

\* the key and the cache store path of the triple of the last set
LastKey == KeyOf(last.bytes, last.output_format, last.quality)
LastPath == cache_filename(LastKey, last.output_format)

\* the artifact of the last set is in the cache store under <key>.<format> and
\* the index has an entry for the key that points at it, with its size
LastSetIsStored ==
    /\ LastPath \in DOMAIN files
    /\ files[LastPath] = last.size
    /\ LastKey \in IndexKeys(index)
    /\ Lookup(index, LastKey).file_path = LastPath
    /\ Lookup(index, LastKey).size = last.size

C15_FailedWriteLeavesIndex ==
    (last.op = "set" /\ ~last.saved) =>
        /\ last.raised
        /\ ~\E i \in 1..Len(index) :
              index[i].key = LastKey /\ index[i].created_at = now

\* set works on the index idx and the store fs: it returns normally, and an
\* artifact that fits the capacity is stored, indexed and found by get
SetWorks(idx, fs, saved) ==
    \A bytes \in Contents, output_format \in Formats, quality \in Qualities,
       size \in OutputSizes :
        LET r == set(idx, create(fs, OutputPath, size), saved, now + 1, bytes,
                     OutputPath, output_format, quality, "meta")
            key == KeyOf(bytes, output_format, quality)
            g == get(r.index, r.files, r.index_file, now + 1, bytes, output_format,
                     quality)
        IN  /\ ~r.raised
            /\ size <= MaxCacheSize =>
                  /\ r.index = <<Lookup(r.index, key)>>
                  /\ g.result = cache_filename(key, output_format)
                  /\ r.files[g.result] = size

C17_InterruptedRewriteKeepsIndex ==
    (last.op = "interrupted" /\ last.persisted.kind = "json") =>
        \/ index = last.persisted.entries
        \/ index = last.new

\* C33: on a cache miss the handler takes the segmented pipeline exactly for
\* an upload above a threshold, and then process_large_file is executed and
\* its result decides the response; otherwise the direct conversion runs.
C33_SegmentedPipelineRuns ==
    (last.op = "convert" /\ ~last.hit) =>
        last.executed = IF last.segmented THEN "process_large_file"
                        ELSE "media_converter.convert"

\* C34: an entry never changes between its creation and its removal: while
\* a key stays in the index, its entry (path, created_at, size, metadata)
\* stays what it was, also across a later set for the same triple.
C34_EntryImmutable ==
    [][\A i \in DOMAIN index, j \in DOMAIN index' :
          index[i].key = index'[j].key => index[i] = index'[j]]_vars

\* the last operation changed the index and ran to its end
Mutated ==
    \/ last.op = "set" /\ ~last.raised
    \/ last.op = "get" /\ last.why \in {"missing", "expired"}
    \/ last.op = "clear"
    \/ last.op = "convert" /\ last.stored

Artifacts == (DOMAIN files) \ {OutputPath}

\* C28: after clear() no artifact file remains in the cache store, the index
\* is empty in memory and on disk, the statistics report no entry and no
\* size, and every get returns absent, whatever operations and restarts
\* came before.
C28_ClearEmptiesStore ==
    last.op = "clear" =>
        /\ Artifacts = {}
        /\ index = <<>>
        /\ _load_index(index_file) = <<>>
        /\ get_stats(index) = [total_entries |-> 0, total_size |-> 0]
        /\ \A bytes \in Contents, output_format \in Formats, quality \in Qualities :
              get(index, files, index_file, now, bytes, output_format, quality).result = None

\* the bytes the artifact files at the paths of S occupy
RECURSIVE StoreBytes(_, _)
StoreBytes(fs, S) ==
    IF S = {} THEN 0
    ELSE LET p == CHOOSE q \in S : TRUE
         IN fs[p] + StoreBytes(fs, S \ {p})

\* C40: every artifact file in the cache store is the file of an index
\* entry, so the bytes in the store are at most the bytes the index accounts
\* for, and those at most the capacity, after any sets, gets, clears and
\* restarts over damaged index files.
C40_StoreWithinIndex ==
    /\ \A p \in Artifacts : \E i \in DOMAIN index : index[i].file_path = p
    /\ StoreBytes(files, Artifacts) <= TotalSize(index)
    /\ TotalSize(index) <= MaxCacheSize

----------------------------------------------------------------------------
(* Rate limiter *)

\* requests_per_minute of the configurations explored
MaxPerMinute == 2
\* clock advances per behaviour
MaxTicks == 2
\* checks per behaviour
MaxCalls == 4

Clients == {"c1", "c2"}
Callers == {1, 2}
Elapsed == {1, 61, 3600}

RateLimitConfig(requests_per_minute, requests_per_hour, requests_per_day, burst_size) ==
    [requests_per_minute |-> requests_per_minute, requests_per_hour |-> requests_per_hour,
     requests_per_day |-> requests_per_day, burst_size |-> burst_size]

Configs ==
    {RateLimitConfig(MaxPerMinute, MaxPerMinute + 1, MaxPerMinute + 1, b) :
        b \in 1..(MaxPerMinute + 1)}

\* configurations without validation: RateLimitConfig accepts a ceiling or
\* a burst size of 0
AnyConfigs ==
    {RateLimitConfig(m, MaxPerMinute + 1, MaxPerMinute + 1, b) :
        m \in {0, MaxPerMinute}, b \in {0, MaxPerMinute}}

\* defaultdict: reading a missing key yields the default and stores it
at(d, k, default) == IF k \in DOMAIN d THEN d[k] ELSE default

store(d, k, v) == [x \in (DOMAIN d) \cup {k} |-> IF x = k THEN v ELSE d[x]]

Min(a, b) == IF a <= b THEN a ELSE b

\* a window from which nothing is ever pruned
keep_all(requests, t, window) == requests

keep(requests, t, window) == SelectSeq(requests, LAMBDA ts : t - ts < window)

_cleanup_old_requests(L, client_id, t) ==
    [L EXCEPT
        !.minute_requests = store(@, client_id, keep(at(@, client_id, <<>>), t, 60)),
        !.hour_requests = store(@, client_id, keep(at(@, client_id, <<>>), t, 3600)),
        !.day_requests = store(@, client_id, keep(at(@, client_id, <<>>), t, 86400))]

\* a bucket that is never refilled
no_tokens_to_add(elapsed, requests_per_minute) == 0

\* elapsed * (requests_per_minute / 60.0) tokens, in sixtieths
tokens_to_add(elapsed, requests_per_minute) == elapsed * requests_per_minute

_refill_tokens(L, cfg, client_id, t) ==
    LET elapsed == t - at(L.last_update, client_id, t)
    IN  [L EXCEPT
            !.tokens = store(@, client_id,
                             Min(60 * cfg.burst_size,
                                 at(@, client_id, 60 * cfg.burst_size)
                                     + tokens_to_add(elapsed, cfg.requests_per_minute))),
            !.last_update = store(@, client_id, t)]

\* a bucket check that lets a request through without a whole token
bucket_negative(tok) == tok < 0

bucket_empty(tok) == tok < 60

\* a window check that is off by one
window_over(count, ceiling) == count > ceiling

window_full(count, ceiling) == count >= ceiling

\* an admission that records the request in the minute and hour windows only
admit_without_day(L, client_id, t) ==
    [L EXCEPT
        !.minute_requests[client_id] = Append(@, t),
        !.hour_requests[client_id] = Append(@, t),
        !.tokens[client_id] = @ - 60]

\* lines 125-130: the request is recorded and a token is consumed
admit(L, client_id, t) ==
    [L EXCEPT
        !.minute_requests[client_id] = Append(@, t),
        !.hour_requests[client_id] = Append(@, t),
        !.day_requests[client_id] = Append(@, t),
        !.tokens[client_id] = @ - 60]

BucketReason(cfg, tok) ==
    "Rate limit exceeded. Try again in "
        \o ToString((60 - tok) \div cfg.requests_per_minute) \o " seconds"

WindowReason(ceiling, window) ==
    "Rate limit: " \o ToString(ceiling) \o " requests per " \o window \o " exceeded"

\* a check that looks at the windows before it looks at the bucket
check_windows_first(L, cfg, client_id, t) ==
    LET L1 == _refill_tokens(_cleanup_old_requests(L, client_id, t), cfg, client_id, t)
        denied(reason) == [state |-> L1, entered |-> L1, allowed |-> FALSE,
                           reason |-> reason, raised |-> FALSE]
    IN  IF window_full(Len(L1.minute_requests[client_id]), cfg.requests_per_minute)
        THEN denied(WindowReason(cfg.requests_per_minute, "minute"))
        ELSE IF window_full(Len(L1.hour_requests[client_id]), cfg.requests_per_hour)
        THEN denied(WindowReason(cfg.requests_per_hour, "hour"))
        ELSE IF window_full(Len(L1.day_requests[client_id]), cfg.requests_per_day)
        THEN denied(WindowReason(cfg.requests_per_day, "day"))
        ELSE IF bucket_empty(L1.tokens[client_id])
        THEN denied(BucketReason(cfg, L1.tokens[client_id]))
        ELSE [state |-> admit(L1, client_id, t), entered |-> L1, allowed |-> TRUE,
              reason |-> None, raised |-> FALSE]

check_rate_limit(L, cfg, client_id, t) ==
    LET L1 == _refill_tokens(_cleanup_old_requests(L, client_id, t), cfg, client_id, t)
        denied(reason) == [state |-> L1, entered |-> L1, allowed |-> FALSE,
                           reason |-> reason, raised |-> FALSE]
    IN  IF bucket_empty(L1.tokens[client_id])
        THEN IF cfg.requests_per_minute = 0
             \* line 106 divides by requests_per_minute / 60.0: ZeroDivisionError
             THEN [state |-> L1, entered |-> L1, allowed |-> FALSE, reason |-> None,
                   raised |-> TRUE]
             ELSE denied(BucketReason(cfg, L1.tokens[client_id]))
        ELSE IF window_full(Len(L1.minute_requests[client_id]), cfg.requests_per_minute)
        THEN denied(WindowReason(cfg.requests_per_minute, "minute"))
        ELSE IF window_full(Len(L1.hour_requests[client_id]), cfg.requests_per_hour)
        THEN denied(WindowReason(cfg.requests_per_hour, "hour"))
        ELSE IF window_full(Len(L1.day_requests[client_id]), cfg.requests_per_day)
        THEN denied(WindowReason(cfg.requests_per_day, "day"))
        ELSE [state |-> admit(L1, client_id, t), entered |-> L1, allowed |-> TRUE,
              reason |-> None, raised |-> FALSE]

\* a get_remaining that counts the timestamps without pruning them
get_remaining_unpruned(L, cfg, client_id, t) ==
    LET L1 == [L EXCEPT
                  !.minute_requests = store(@, client_id, at(@, client_id, <<>>)),
                  !.hour_requests = store(@, client_id, at(@, client_id, <<>>)),
                  !.day_requests = store(@, client_id, at(@, client_id, <<>>)),
                  !.tokens = store(@, client_id, at(@, client_id, 60 * cfg.burst_size))]
    IN  [state |-> L1,
         minute |-> cfg.requests_per_minute - Len(L1.minute_requests[client_id]),
         hour |-> cfg.requests_per_hour - Len(L1.hour_requests[client_id]),
         day |-> cfg.requests_per_day - Len(L1.day_requests[client_id]),
         tokens |-> L1.tokens[client_id] \div 60]

\* lines 134-151: the windows are pruned, then each ceiling minus the length
\* of its window and int(tokens) are returned; reading tokens stores the
\* default for a client without a bucket
get_remaining(L, cfg, client_id, t) ==
    LET L0 == _cleanup_old_requests(L, client_id, t)
        L1 == [L0 EXCEPT
                  !.tokens = store(@, client_id, at(@, client_id, 60 * cfg.burst_size))]
    IN  [state |-> L1,
         minute |-> cfg.requests_per_minute - Len(L1.minute_requests[client_id]),
         hour |-> cfg.requests_per_hour - Len(L1.hour_requests[client_id]),
         day |-> cfg.requests_per_day - Len(L1.day_requests[client_id]),
         tokens |-> L1.tokens[client_id] \div 60]

\* a reset that empties the windows and leaves the bucket as it is
reset_windows_only(L, cfg, client_id, t) ==
    [L EXCEPT
        !.minute_requests = store(@, client_id, <<>>),
        !.hour_requests = store(@, client_id, <<>>),
        !.day_requests = store(@, client_id, <<>>),
        !.tokens = store(@, client_id, at(@, client_id, 60 * cfg.burst_size)),
        !.last_update = store(@, client_id, t)]

\* lines 153-159
reset(L, cfg, client_id, t) ==
    [L EXCEPT
        !.minute_requests = store(@, client_id, <<>>),
        !.hour_requests = store(@, client_id, <<>>),
        !.day_requests = store(@, client_id, <<>>),
        !.tokens = store(@, client_id, 60 * cfg.burst_size),
        !.last_update = store(@, client_id, t)]

\* del d[k] of a key that is there
del(d, k) == [x \in (DOMAIN d) \ {k} |-> d[x]]

\* lines 168-179 for one client of the sweep: its windows are pruned, and if
\* all three are empty its five records are deleted one after the other; a
\* del of a key that is not there raises KeyError and ends the task
sweep_client(L, client_id, t) ==
    LET L1 == _cleanup_old_requests(L, client_id, t)
        L2 == [L1 EXCEPT !.minute_requests = del(@, client_id),
                         !.hour_requests = del(@, client_id),
                         !.day_requests = del(@, client_id)]
    IN  IF /\ L1.minute_requests[client_id] = <<>>
           /\ L1.hour_requests[client_id] = <<>>
           /\ L1.day_requests[client_id] = <<>>
        THEN IF client_id \notin DOMAIN L1.tokens
             THEN [state |-> L2, raised |-> TRUE]
             ELSE IF client_id \notin DOMAIN L1.last_update
             THEN [state |-> [L2 EXCEPT !.tokens = del(@, client_id)],
                   raised |-> TRUE]
             ELSE [state |-> [L2 EXCEPT !.tokens = del(@, client_id),
                                        !.last_update = del(@, client_id)],
                   raised |-> FALSE]
        ELSE [state |-> L1, raised |-> FALSE]

\* one pass over list(self.minute_requests.keys()), in the order given
RECURSIVE sweep_pass(_, _, _)
sweep_pass(L, order, t) ==
    IF order = <<>> THEN [state |-> L, raised |-> FALSE]
    ELSE LET r == sweep_client(L, Head(order), t)
         IN  IF r.raised THEN r ELSE sweep_pass(r.state, Tail(order), t)

\* the orders in which a dict can hold the keys S
Orders(S) ==
    {o \in [1..Cardinality(S) -> S] : {o[i] : i \in 1..Cardinality(S)} = S}

NotStarted == [state |-> "not_started", passes |-> 0]

NoRemaining == [client |-> None, minute |-> 0, hour |-> 0, day |-> 0, tokens |-> 0]

Limiter ==
    [minute_requests |-> minute_requests, hour_requests |-> hour_requests,
     day_requests |-> day_requests, tokens |-> tokens, last_update |-> last_update]

SetLimiter(L) ==
    /\ minute_requests' = L.minute_requests
    /\ hour_requests' = L.hour_requests
    /\ day_requests' = L.day_requests
    /\ tokens' = L.tokens
    /\ last_update' = L.last_update

IdleLimiter ==
    /\ minute_requests = << >>
    /\ hour_requests = << >>
    /\ day_requests = << >>
    /\ tokens = << >>
    /\ last_update = << >>
    /\ config = RateLimitConfig(0, 0, 0, 0)
    /\ clock = 0
    /\ ticks = 0
    /\ pending = [k \in Callers |-> None]
    /\ log = [c \in Clients |-> <<>>]
    /\ overlapped = FALSE
    /\ remaining = NoRemaining
    /\ cleanup_task = NotStarted

InitLimiter ==
    /\ minute_requests = << >>
    /\ hour_requests = << >>
    /\ day_requests = << >>
    /\ tokens = << >>
    /\ last_update = << >>
    /\ config \in Configs
    /\ clock = 0
    /\ ticks = 0
    /\ pending = [k \in Callers |-> None]
    /\ log = [c \in Clients |-> <<>>]
    /\ overlapped = FALSE
    /\ remaining = NoRemaining
    /\ cleanup_task = NotStarted

\* what a check did, for the history: its time and result, the tokens it
\* consumed (in sixtieths) and the timestamps it appended to the windows
LogRecord(client_id, t, r) ==
    [op |-> "check", t |-> t, allowed |-> r.allowed, reason |-> r.reason,
     raised |-> r.raised,
     consumed |-> r.entered.tokens[client_id] - r.state.tokens[client_id],
     appended |-> (Len(r.state.minute_requests[client_id])
                      - Len(r.entered.minute_requests[client_id]))
                  + (Len(r.state.hour_requests[client_id])
                      - Len(r.entered.hour_requests[client_id]))
                  + (Len(r.state.day_requests[client_id])
                      - Len(r.entered.day_requests[client_id]))]

InitLimiterAnyConfig ==
    /\ minute_requests = << >>
    /\ hour_requests = << >>
    /\ day_requests = << >>
    /\ tokens = << >>
    /\ last_update = << >>
    /\ config \in AnyConfigs
    /\ clock = 0
    /\ ticks = 0
    /\ pending = [k \in Callers |-> None]
    /\ log = [c \in Clients |-> <<>>]
    /\ overlapped = FALSE
    /\ remaining = NoRemaining
    /\ cleanup_task = NotStarted

RECURSIVE SumOver(_, _)
SumOver(f, S) ==
    IF S = {} THEN 0
    ELSE LET x == CHOOSE y \in S : TRUE IN f[x] + SumOver(f, S \ {x})

ChecksMade == SumOver([c \in Clients |-> Len(log[c])], Clients)

\* a request of client_id reaches the middleware of caller k
Request(k, client_id) ==
    /\ pending[k] = None
    /\ ChecksMade + Cardinality({j \in Callers : pending[j] # None}) < MaxCalls
    /\ pending' = [pending EXCEPT ![k] = client_id]
    /\ UNCHANGED <<minute_requests, hour_requests, day_requests, tokens, last_update,
                   config, clock, ticks, log, overlapped, cleanup_task>>
    /\ remaining' = NoRemaining
    /\ LimiterOnly

\* caller k runs check_rate_limit: the coroutine has no suspension point, so
\* the event loop runs it from its first line to its return in one step
CheckRateLimit(k) ==
    /\ pending[k] # None
    /\ LET client_id == pending[k]
           r == check_rate_limit(Limiter, config, client_id, clock)
       IN  /\ SetLimiter(r.state)
           /\ log' = [log EXCEPT ![client_id] =
                         Append(@, LogRecord(client_id, clock, r))]
           /\ overlapped' = (overlapped \/ \E j \in Callers \ {k} :
                                                pending[j] = client_id)
    /\ pending' = [pending EXCEPT ![k] = None]
    /\ remaining' = NoRemaining
    /\ UNCHANGED <<config, clock, ticks, cleanup_task>>
    /\ LimiterOnly

Advance(dt) ==
    /\ ticks < MaxTicks
    /\ clock' = clock + dt
    /\ ticks' = ticks + 1
    /\ UNCHANGED <<minute_requests, hour_requests, day_requests, tokens, last_update,
                   config, pending, log, overlapped, cleanup_task>>
    /\ remaining' = NoRemaining
    /\ LimiterOnly

\* get_remaining(client_id) is called
GetRemaining(client_id) ==
    /\ LET r == get_remaining(Limiter, config, client_id, clock)
       IN  /\ SetLimiter(r.state)
           /\ remaining' = [client |-> client_id, minute |-> r.minute,
                            hour |-> r.hour, day |-> r.day, tokens |-> r.tokens]
    /\ UNCHANGED <<config, clock, ticks, pending, log, overlapped, cleanup_task>>
    /\ LimiterOnly

\* reset(client_id) is called
Reset(client_id) ==
    /\ ChecksMade + Cardinality({j \in Callers : pending[j] # None}) < MaxCalls
    /\ SetLimiter(reset(Limiter, config, client_id, clock))
    /\ log' = [log EXCEPT ![client_id] =
                  Append(@, [op |-> "reset", t |-> clock, allowed |-> FALSE,
                             reason |-> None, raised |-> FALSE, consumed |-> 0,
                             appended |-> 0])]
    /\ remaining' = NoRemaining
    /\ UNCHANGED <<config, clock, ticks, pending, overlapped, cleanup_task>>
    /\ LimiterOnly

\* start_cleanup_task is scheduled
StartCleanupTask ==
    /\ cleanup_task.state = "not_started"
    /\ cleanup_task' = [cleanup_task EXCEPT !.state = "sleeping"]
    /\ remaining' = NoRemaining
    /\ UNCHANGED <<minute_requests, hour_requests, day_requests, tokens, last_update,
                   config, clock, ticks, pending, log, overlapped>>
    /\ LimiterOnly

\* the sleep of 300 s ends and the task makes one pass over the clients. The
\* keys come in the insertion order of minute_requests, which the model does
\* not keep: every order is possible.
Sweep ==
    /\ cleanup_task.state = "sleeping"
    /\ ticks < MaxTicks
    /\ clock' = clock + 300
    /\ ticks' = ticks + 1
    /\ \E order \in Orders(DOMAIN minute_requests) :
          LET r == sweep_pass(Limiter, order, clock + 300)
          IN  /\ SetLimiter(r.state)
              /\ cleanup_task' = [state |-> IF r.raised THEN "failed" ELSE "sleeping",
                                  passes |-> cleanup_task.passes + 1]
    /\ remaining' = NoRemaining
    /\ UNCHANGED <<config, pending, log, overlapped>>
    /\ LimiterOnly

\* waiting times up to a day
Waits == {1, 61, 86400}

\* one caller using the whole interface of the limiter for one client
NextLimiterApi ==
    \/ Request(1, "c1")
    \/ CheckRateLimit(1)
    \/ \E dt \in Waits : Advance(dt)
    \/ GetRemaining("c1")
    \/ Reset("c1")

\* one client that sends requests, one that is only asked about or reset,
\* and the periodic sweep
NextLimiterSweep ==
    \/ Request(1, "c1")
    \/ CheckRateLimit(1)
    \/ \E dt \in Waits : Advance(dt)
    \/ GetRemaining("c2")
    \/ Reset("c2")
    \/ StartCleanupTask
    \/ Sweep

NextLimiter ==
    \/ \E k \in Callers, client_id \in Clients : Request(k, client_id)
    \/ \E k \in Callers : CheckRateLimit(k)
    \/ \E dt \in Elapsed : Advance(dt)

\* the limits a check of client_id at the current time finds violated, in
\* the order bucket, minute, hour, day
Violated(client_id) ==
    LET L1 == _refill_tokens(_cleanup_old_requests(Limiter, client_id, clock),
                             config, client_id, clock)
    IN  [bucket |-> bucket_empty(L1.tokens[client_id]),
         minute |-> window_full(Len(L1.minute_requests[client_id]),
                                config.requests_per_minute),
         hour |-> window_full(Len(L1.hour_requests[client_id]),
                              config.requests_per_hour),
         day |-> window_full(Len(L1.day_requests[client_id]),
                             config.requests_per_day),
         tokens |-> L1.tokens[client_id]]

\* C31: a check looks at the token bucket first and then at the minute, hour
\* and day windows, and its denial reason names the first limit violated in
\* that order; it admits only when none is violated.
C31_ReasonNamesFirstViolatedLimit ==
    [][\A c \in Clients :
          log'[c] # log[c] =>
              LET rec == log'[c][Len(log'[c])]
                  v == Violated(c)
              IN  rec.op = "check" =>
                      /\ ~rec.raised
                      /\ rec.allowed = ~(v.bucket \/ v.minute \/ v.hour \/ v.day)
                      /\ rec.reason =
                            IF v.bucket THEN BucketReason(config, v.tokens)
                            ELSE IF v.minute
                            THEN WindowReason(config.requests_per_minute, "minute")
                            ELSE IF v.hour
                            THEN WindowReason(config.requests_per_hour, "hour")
                            ELSE IF v.day
                            THEN WindowReason(config.requests_per_day, "day")
                            ELSE None
      ]_vars

\* the last check of a client was denied for the bucket while its minute
\* window was full as well
C31_Witness ==
    \E c \in Clients :
        /\ log[c] # <<>>
        /\ LET rec == log[c][Len(log[c])]
           IN  /\ rec.op = "check" /\ ~rec.allowed /\ rec.t = clock
               /\ rec.reason = BucketReason(config, tokens[c])
        /\ bucket_empty(tokens[c])
        /\ window_full(Len(minute_requests[c]), config.requests_per_minute)

\* the last check of a client was denied for the minute window while its hour
\* window was full as well
C31_WitnessWindows ==
    \E c \in Clients :
        /\ log[c] # <<>>
        /\ LET rec == log[c][Len(log[c])]
           IN  /\ rec.op = "check" /\ ~rec.allowed /\ rec.t = clock
               /\ rec.reason = WindowReason(config.requests_per_minute, "minute")
        /\ window_full(Len(hour_requests[c]), config.requests_per_hour)

\* C36: every pass of the sweep ends without error, and after it a client
\* whose three windows are empty after pruning has no record left, while
\* every other client keeps its bucket and its pruned windows.
C36_SweepRemovesIdleClients ==
    [][cleanup_task'.passes > cleanup_task.passes =>
          /\ cleanup_task'.state = "sleeping"
          /\ \A c \in DOMAIN minute_requests :
                LET L1 == _cleanup_old_requests(Limiter, c, clock')
                IN  IF /\ L1.minute_requests[c] = <<>>
                       /\ L1.hour_requests[c] = <<>>
                       /\ L1.day_requests[c] = <<>>
                    THEN /\ c \notin DOMAIN minute_requests'
                         /\ c \notin DOMAIN hour_requests'
                         /\ c \notin DOMAIN day_requests'
                         /\ c \notin DOMAIN tokens'
                         /\ c \notin DOMAIN last_update'
                    ELSE /\ minute_requests'[c] = L1.minute_requests[c]
                         /\ hour_requests'[c] = L1.hour_requests[c]
                         /\ day_requests'[c] = L1.day_requests[c]
                         /\ tokens'[c] = tokens[c]
                         /\ last_update'[c] = last_update[c]
      ]_vars

\* The service: rate_limit_middleware around the handlers. The middleware
\* gets the limiter's decision r, what the cache looks like if the handler
\* is not called (untouched) and what it looks like after the handler ran
\* (handled).
rate_limit_after_handler(r, untouched, handled) ==
    IF ~r.allowed
    THEN [handled EXCEPT !.response = [status |-> 429, body |-> r.reason]]
    ELSE handled

rate_limit_middleware(r, untouched, handled) ==
    IF ~r.allowed
    THEN [untouched EXCEPT !.response = [status |-> 429, body |-> r.reason]]
    ELSE handled

\* a POST /convert of client_id passes through the middleware; the converter
\* would write size bytes
ConvertRequest(client_id, quality, size) ==
    \E bytes \in Contents, output_format \in Formats,
       file_duration \in {300, 301}, success \in BOOLEAN :
        /\ now < MaxNow
        /\ ChecksMade < MaxCalls
        /\ pending = [k \in Callers |-> None]
        /\ LET r == check_rate_limit(Limiter, config, client_id, clock)
               untouched == [index |-> index, files |-> files,
                             index_file |-> index_file, now |-> now,
                             response |-> response,
                             last |-> [op |-> "denied"]]
               handled == convert_file(bytes, output_format, quality,
                                       use_segmentation(file_duration, 0),
                                       success, size)
               c == rate_limit_middleware(r, untouched, handled)
               h == get_remaining(r.state, config, client_id, clock)
           IN  /\ index' = c.index
               /\ files' = c.files
               /\ index_file' = c.index_file
               /\ now' = c.now
               /\ response' = c.response
               /\ last' = c.last
               /\ log' = [log EXCEPT ![client_id] =
                             Append(@, LogRecord(client_id, clock, r))]
               /\ IF r.allowed
                  THEN /\ SetLimiter(h.state)
                       /\ remaining' = [client |-> client_id, minute |-> h.minute,
                                        hour |-> h.hour, day |-> h.day,
                                        tokens |-> h.tokens]
                  ELSE /\ SetLimiter(r.state)
                       /\ remaining' = NoRemaining
        /\ UNCHANGED <<zone, disk, config, clock, ticks, pending, overlapped,
                       cleanup_task>>
        /\ UNCHANGED <<keyVars, pipelineVars, batchVars, setVars, runVars>>

\* a GET /health skips the limiter and reports the cache statistics
HealthRequest ==
    /\ response' = [status |-> 200, body |-> get_stats(index)]
    /\ last' = [op |-> "health"]
    /\ UNCHANGED <<index, files, index_file, disk, now, zone>>
    /\ UNCHANGED <<keyVars, limiterVars, pipelineVars, batchVars, setVars, runVars>>

NextService ==
    \/ ConvertRequest("c1", "high", MaxOutputSize - 8)
    \/ HealthRequest
    \/ Advance(61)

\* C29: the limiter is consulted before anything else on a non-health
\* request: a denied request is answered 429 with the denial reason and the
\* cache is neither read into a response nor written, and an admitted
\* request consumes exactly one admission of its client (one token, one
\* timestamp in each of the three windows); a health request consults
\* nothing.
C29_LimiterBeforeHandler ==
    [][/\ \A c \in Clients :
            log'[c] # log[c] =>
                /\ Len(log'[c]) = Len(log[c]) + 1
                /\ \A d \in Clients \ {c} : log'[d] = log[d]
                /\ LET rec == log'[c][Len(log'[c])]
                   IN  /\ rec.op = "check"
                       /\ ~rec.raised
                       /\ ~rec.allowed =>
                              /\ response' = [status |-> 429, body |-> rec.reason]
                              /\ rec.reason # None
                              /\ UNCHANGED <<index, files, index_file, now>>
                              /\ rec.consumed = 0 /\ rec.appended = 0
                       /\ rec.allowed =>
                              /\ response'.status # 429
                              /\ rec.consumed = 60 /\ rec.appended = 3
       /\ (log' = log /\ clock' = clock) => UNCHANGED limiterVars
      ]_vars

\* a request was denied after an earlier one had stored its artifact
C29_Witness ==
    /\ Len(log["c1"]) >= 2
    /\ ~log["c1"][Len(log["c1"])].allowed
    /\ response.status = 429
    /\ index # <<>>

----------------------------------------------------------------------------
(* Claims about the rate limiter *)

\* admitted requests of client c inside the window that trails T
InWindow(c, T, window) ==
    Cardinality({i \in 1..Len(log[c]) :
                    /\ log[c][i].allowed
                    /\ log[c][i].t <= T
                    /\ T - log[c][i].t < window})

\* C5: for every client the admitted requests inside any trailing 60 s, 3600 s
\* and 86400 s window never exceed the minute, hour and day ceilings.
C5_WindowCeilingsHold ==
    \A c \in Clients : \A i \in 1..Len(log[c]) :
        log[c][i].allowed =>
            /\ InWindow(c, log[c][i].t, 60) <= config.requests_per_minute
            /\ InWindow(c, log[c][i].t, 3600) <= config.requests_per_hour
            /\ InWindow(c, log[c][i].t, 86400) <= config.requests_per_day

C5_Witness ==
    \E c \in Clients :
        /\ log[c] # <<>>
        /\ ~log[c][Len(log[c])].allowed
        /\ log[c][Len(log[c])].reason = WindowReason(config.requests_per_hour, "hour")
        /\ InWindow(c, clock, 3600) = config.requests_per_hour
        /\ InWindow(c, clock, 60) < config.requests_per_minute

SameInstant(c) == \A i \in 1..Len(log[c]) : log[c][i].t = log[c][1].t

BurstBelowCeilings ==
    /\ config.burst_size < config.requests_per_minute
    /\ config.burst_size < config.requests_per_hour
    /\ config.burst_size < config.requests_per_day

MinuteThenWait(c, N) ==
    /\ Len(log[c]) >= N + 2
    /\ log[c][N + 1].t - log[c][1].t < 60
    /\ log[c][N + 2].t - log[c][N + 1].t >= 61

\* C7: with requests_per_minute = N, burst size at least N and larger hour and
\* day ceilings, the first N checks of a fresh client are admitted without an
\* error message, the (N+1)th within the same minute is denied, and a check
\* made 61 s or more after it is admitted again.
C7_MinuteLimitThenRecovery ==
    \A c \in Clients :
        LET N == config.requests_per_minute
        IN  (/\ config.burst_size >= N
             /\ config.requests_per_hour > N
             /\ config.requests_per_day > N) =>
                /\ \A i \in 1..Len(log[c]) :
                      i <= N => (log[c][i].allowed /\ log[c][i].reason = None)
                /\ (Len(log[c]) >= N + 1 /\ log[c][N + 1].t - log[c][1].t < 60)
                      => ~log[c][N + 1].allowed
                /\ MinuteThenWait(c, N) => log[c][N + 2].allowed

C7_Witness ==
    \E c \in Clients :
        /\ config.burst_size >= config.requests_per_minute
        /\ MinuteThenWait(c, config.requests_per_minute)
        /\ log[c][config.requests_per_minute + 2].allowed
        /\ ~log[c][config.requests_per_minute + 1].allowed

IsSuffix(s, t) ==
    /\ Len(s) <= Len(t)
    /\ s = SubSeq(t, Len(t) - Len(s) + 1, Len(t))

AdmittedTimes(c) ==
    LET a == SelectSeq(log[c], LAMBDA r : r.allowed)
    IN  [i \in 1..Len(a) |-> a[i].t]

\* C8: under concurrent callers every admission is one indivisible step: in
\* every state a caller can observe, each client's minute, hour and day windows
\* hold the same admissions (each a suffix of the next and of the admissions
\* made so far) and one token has been consumed for each admission of the
\* current instant; no client has a record in only some of the dictionaries.
C8_AdmissionIndivisible ==
    \A c \in Clients :
        IF c \in DOMAIN minute_requests
        THEN /\ c \in DOMAIN hour_requests
             /\ c \in DOMAIN day_requests
             /\ c \in DOMAIN tokens
             /\ c \in DOMAIN last_update
             /\ IsSuffix(minute_requests[c], hour_requests[c])
             /\ IsSuffix(hour_requests[c], day_requests[c])
             /\ IsSuffix(day_requests[c], AdmittedTimes(c))
             /\ tokens[c] + 60 * InWindow(c, last_update[c], 1)
                   <= 60 * config.burst_size
        ELSE AdmittedTimes(c) = <<>>

C8_Witness ==
    \E c \in Clients : \E i \in 1..Len(log[c]) :
        /\ i < Len(log[c])
        /\ overlapped
        /\ log[c][i].allowed
        /\ log[c][i + 1].t = log[c][i].t
        /\ ~log[c][i + 1].allowed

\* C24: a denied check returns False with a non-empty reason and does not
\* raise, for every configuration; it consumes no token and appends no
\* timestamp. An admitted check returns True and no reason.
C24_DenialIsPureDecision ==
    \A c \in Clients : \A i \in 1..Len(log[c]) :
        /\ ~log[c][i].raised
        /\ IF log[c][i].allowed
           THEN log[c][i].reason = None
           ELSE /\ log[c][i].reason \notin {None, ""}
                /\ log[c][i].consumed = 0
                /\ log[c][i].appended = 0

Max(a, b) == IF a >= b THEN a ELSE b

IsCheck(e) == e.op = "check"

\* C25: a denied client that waits 86400 s without further requests is
\* admitted at its next check, for configurations with burst size and
\* ceilings of at least 1.
C25_DenialRecoversWithinADay ==
    \A c \in Clients :
        /\ \A i \in 1..(Len(log[c]) - 1) :
              (/\ IsCheck(log[c][i]) /\ ~log[c][i].allowed
               /\ IsCheck(log[c][i + 1])
               /\ log[c][i + 1].t - log[c][i].t >= 86400) => log[c][i + 1].allowed
        /\ (/\ log[c] # <<>>
            /\ IsCheck(log[c][Len(log[c])])
            /\ ~log[c][Len(log[c])].allowed) =>
              check_rate_limit(Limiter, config, c,
                               Max(clock, log[c][Len(log[c])].t + 86400)).allowed

C25_Witness ==
    \E i \in 1..(Len(log["c1"]) - 1) :
        /\ IsCheck(log["c1"][i])
        /\ ~log["c1"][i].allowed
        /\ log["c1"][i].reason = WindowReason(config.requests_per_minute, "minute")
        /\ IsCheck(log["c1"][i + 1])
        /\ log["c1"][i + 1].t - log["c1"][i].t = 86400
        /\ log["c1"][i + 1].allowed

\* the admissions of c since its last reset that lie inside the window
\* that trails T
AdmittedSinceReset(c, T, window) ==
    Cardinality({i \in 1..Len(log[c]) :
                    /\ IsCheck(log[c][i])
                    /\ log[c][i].allowed
                    /\ T - log[c][i].t < window
                    /\ \A j \in (i + 1)..Len(log[c]) : IsCheck(log[c][j])})

\* C26: get_remaining returns for each window the ceiling minus the
\* admitted requests still inside it: the ceilings themselves for a client
\* without requests, and never a negative counter.
C26_RemainingIsCeilingMinusAdmitted ==
    remaining.client # None =>
        LET c == remaining.client
        IN  /\ remaining.minute = config.requests_per_minute - AdmittedSinceReset(c, clock, 60)
            /\ remaining.hour = config.requests_per_hour - AdmittedSinceReset(c, clock, 3600)
            /\ remaining.day = config.requests_per_day - AdmittedSinceReset(c, clock, 86400)
            /\ remaining.minute >= 0 /\ remaining.hour >= 0 /\ remaining.day >= 0
            /\ remaining.tokens >= 0
            /\ log[c] = <<>> =>
                  /\ remaining.minute = config.requests_per_minute
                  /\ remaining.hour = config.requests_per_hour
                  /\ remaining.day = config.requests_per_day

C26_Witness ==
    /\ remaining.client = "c1"
    /\ remaining.minute = 0
    /\ remaining.hour = 0
    /\ config.requests_per_minute > 0
    /\ AdmittedSinceReset("c1", clock, 86400) > AdmittedSinceReset("c1", clock, 60)

\* C27: after reset(c) the windows of c are empty and its bucket holds
\* burst_size tokens, whatever its state was, and its next check is admitted.
C27_ResetRestoresClient ==
    \A c \in Clients :
        /\ \A i \in 1..(Len(log[c]) - 1) :
              (~IsCheck(log[c][i]) /\ IsCheck(log[c][i + 1])) => log[c][i + 1].allowed
        /\ (log[c] # <<>> /\ ~IsCheck(log[c][Len(log[c])])) =>
              /\ minute_requests[c] = <<>>
              /\ hour_requests[c] = <<>>
              /\ day_requests[c] = <<>>
              /\ tokens[c] = 60 * config.burst_size
              /\ check_rate_limit(Limiter, config, c, clock).allowed

C27_Witness ==
    \E i \in 1..(Len(log["c1"]) - 2) :
        /\ IsCheck(log["c1"][i])
        /\ log["c1"][i].reason = BucketReason(config, 0)
        /\ ~IsCheck(log["c1"][i + 1])
        /\ log["c1"][i + 1].t = log["c1"][i].t
        /\ IsCheck(log["c1"][i + 2])
        /\ log["c1"][i + 2].t = log["c1"][i].t
        /\ log["c1"][i + 2].allowed

----------------------------------------------------------------------------
(* Segmented pipeline: one process_large_file invocation *)

\* segments a split produces at most
MaxSegments == 3

\* segment counts of the runs that are followed segment by segment in the
\* merge-order specification
MaxListed == 40

\* the decimal digits of a natural number, most significant first
RECURSIVE digits(_)
digits(i) == IF i < 10 THEN <<i>> ELSE Append(digits(i \div 10), i % 10)

\* "%03d" % i, as code points: at least three digits, zero padded
format_03d(i) ==
    LET d == digits(i)
        zeros == IF Len(d) < 3 THEN [k \in 1..(3 - Len(d)) |-> 48] ELSE <<>>
    IN  zeros \o [k \in 1..Len(d) |-> 48 + d[k]]

\* the name of segment i after the common prefix "segment_", up to and
\* including the "." (code point 46) that starts the extension
segment_name(i) == Append(format_03d(i), 46)

\* a < b for two python strings (sequences of code points)
str_lt(a, b) ==
    \E k \in 1..Len(b) :
        /\ \A m \in 1..(k - 1) : m <= Len(a) /\ a[m] = b[m]
        /\ k > Len(a) \/ a[k] < b[k]

\* sorted(output_dir.glob("segment_*.*")) for the segments 0..n-1: the paths
\* of one directory in the order of their names, given by sequence index
listing(n) ==
    LET names == [i \in 0..(n - 1) |-> segment_name(i)]
        ranked == {<<Cardinality({j \in 0..(n - 1) : str_lt(names[j], names[i])}), i>> :
                      i \in 0..(n - 1)}
    IN  [k \in 1..n |-> (CHOOSE p \in ranked : p[1] = k - 1)[2]]

\* Progress values are kept multiplied by 10 * total_segments, which makes
\* every value the pipeline delivers a whole number.
split_progress(p, total) == p * 2 * total
\* a convert wrapper that forgets the factor 0.7
convert_progress_unscaled(done, total) == 200 * total + 1000 * done
convert_progress_at(done, total) == 200 * total + 700 * done
\* a merge wrapper that forgets the factor 0.1
merge_progress_unscaled(p, total) == 900 * total + 10 * p * total

merge_progress(p, total) == 900 * total + p * total

IdlePipeline ==
    /\ stage = "idle"
    /\ callback = "none"
    /\ temp_dir = FALSE
    /\ segments = <<>>
    /\ seg_idx = 0
    /\ seg_status = <<>>
    /\ converted = <<>>
    /\ concat_input = None
    /\ returned = None
    /\ sink = <<>>
    /\ ops = <<>>

InitPipeline ==
    /\ stage = "idle"
    /\ callback \in {"none", "ok", "raises"}
    /\ temp_dir = FALSE
    /\ segments = <<>>
    /\ seg_idx = 0
    /\ seg_status = <<>>
    /\ converted = <<>>
    /\ concat_input = None
    /\ returned = None
    /\ sink = <<>>
    /\ ops = <<>>

\* one invoked operation: its kind, the sequence index of the segment it
\* worked on (0 where there is none) and whether it succeeded
Op(op, seg, ok) == [op |-> op, seg |-> seg, ok |-> ok]

\* the invocation of the progress sink, if a callback was given
sink_ops(raises) == IF callback = "none" THEN <<>> ELSE <<Op("sink", 0, ~raises)>>

\* a split that runs ffmpeg whatever the probe said
split_ops_unprobed(outcome) ==
    <<Op("probe", 0, outcome # "no_duration"), Op("split", 0, outcome = "ok")>>

\* the external operations of split_into_segments: the probe (get_duration),
\* and the ffmpeg split unless the probe gave no duration (lines 80-84)
split_ops(outcome) ==
    IF outcome = "no_duration"
    THEN <<Op("probe", 0, FALSE)>>
    ELSE <<Op("probe", 0, TRUE), Op("split", 0, outcome = "ok")>>

\* a loop that gives up at the first segment that fails
more_segments_unless_failed(done, total, success) == done < total /\ success

\* whether the for loop of convert_segments has another segment to handle
more_segments(done, total, success) == done < total

\* a return statement of process_large_file: control passes to the finally
\* block
Return(value) ==
    /\ returned' = value
    /\ stage' = "returning"
    /\ UNCHANGED temp_dir

\* lines 314-319: the scratch directory is created, or mkdir raises and the
\* except clause returns False
Start(mkdir_raises) ==
    /\ stage = "idle"
    /\ stage' = IF mkdir_raises THEN "returning" ELSE "splitting"
    /\ returned' = IF mkdir_raises THEN FALSE ELSE returned
    /\ temp_dir' = ~mkdir_raises
    /\ ops' = Append(ops, Op("mkdir", 0, ~mkdir_raises))
    /\ UNCHANGED <<callback, segments, seg_idx, seg_status, converted, concat_input,
                   sink>>
    /\ PipelineOnly

\* the task running process_large_file is cancelled at an await of a stage:
\* CancelledError is not an Exception, no except clause catches it, and the
\* finally block runs while the exception propagates
Cancel ==
    /\ stage \in {"splitting", "converting", "merging"}
    /\ stage' = "unwinding"
    /\ UNCHANGED <<callback, temp_dir, segments, seg_idx, seg_status, converted,
                   concat_input, returned, sink, ops>>
    /\ PipelineOnly

\* the finally block (lines 365-373): rmtree removes the scratch directory
\* with the segment files in it, or raises and only a warning is logged;
\* then the call ends
Finally(rmtree_raises) ==
    /\ stage \in {"returning", "unwinding"}
    /\ rmtree_raises => temp_dir
    /\ temp_dir' = (temp_dir /\ rmtree_raises)
    /\ stage' = IF stage = "unwinding" THEN "cancelled"
                 ELSE IF returned THEN "done" ELSE "failed"
    /\ UNCHANGED <<callback, segments, seg_idx, seg_status, converted, concat_input,
                   returned, sink, ops>>
    /\ PipelineOnly

\* the sink is invoked only when a callback was given; raises says whether
\* this invocation raises
Delivered(raises) == callback # "none" /\ ~raises

CanRaise(raises) == raises => callback = "raises"

\* split_into_segments: the probe, the split and the listing of the segments
Split(outcome, n, raises) ==
    /\ stage = "splitting"
    /\ CanRaise(raises)
    /\ raises => outcome = "ok"
    /\ outcome # "ok" => n = 1
    /\ LET listed == IF outcome = "ok" /\ ~raises
                     THEN listing(n)
                     ELSE <<>>
       IN  /\ sink' = IF outcome = "ok" /\ Delivered(raises)
                      THEN Append(sink, split_progress(100, n))
                      ELSE sink
           /\ ops' = ops \o split_ops(outcome) \o
                        (IF outcome = "ok" THEN sink_ops(raises) ELSE <<>>)
           /\ segments' = listed
           /\ seg_status' = [i \in 1..Len(listed) |-> "pending"]
           /\ IF listed = <<>>
              THEN Return(FALSE)
              ELSE /\ stage' = "converting"
                   /\ UNCHANGED <<returned, temp_dir>>
    /\ UNCHANGED <<callback, seg_idx, converted, concat_input>>
    /\ PipelineOnly

\* one iteration of the loop of convert_segments; after the last one
\* process_large_file goes on to the merge unless nothing was converted
ConvertSegment(success, raises) ==
    /\ stage = "converting"
    /\ CanRaise(raises)
    /\ LET total == Len(segments)
           done == seg_idx + 1
           out == IF success THEN Append(converted, segments[done]) ELSE converted
       IN  /\ converted' = out
           /\ seg_status' = [seg_status EXCEPT ![done] =
                                IF success THEN "done" ELSE "failed"]
           /\ seg_idx' = done
           /\ sink' = IF Delivered(raises)
                      THEN Append(sink, convert_progress_at(done, total))
                      ELSE sink
           /\ ops' = Append(ops, Op("encode", segments[done], success)) \o sink_ops(raises)
           /\ IF more_segments(done, total, success)
              THEN UNCHANGED <<stage, returned, temp_dir>>
              ELSE IF out = <<>>
              THEN Return(FALSE)
              ELSE /\ stage' = "merging"
                   /\ UNCHANGED <<returned, temp_dir>>
    /\ UNCHANGED <<callback, segments, concat_input>>
    /\ PipelineOnly

\* merge_segments: the concat operation on converted_segments
Merge(success, raises) ==
    /\ stage = "merging"
    /\ CanRaise(raises)
    /\ raises => success
    /\ concat_input' = converted
    /\ ops' = Append(ops, Op("concat", 0, success)) \o
                 (IF success THEN sink_ops(raises) ELSE <<>>)
    /\ sink' = IF success /\ Delivered(raises)
               THEN Append(sink, merge_progress(100, Len(segments)))
               ELSE sink
    /\ Return(success /\ ~raises)
    /\ UNCHANGED <<callback, segments, seg_idx, seg_status, converted>>
    /\ PipelineOnly

\* a run without progress callback that is about to split
InitMergeOrder ==
    /\ stage = "splitting"
    /\ callback = "none"
    /\ temp_dir = TRUE
    /\ segments = <<>>
    /\ seg_idx = 0
    /\ seg_status = <<>>
    /\ converted = <<>>
    /\ concat_input = None
    /\ returned = None
    /\ sink = <<>>
    /\ ops = <<>>

\* split_into_segments where ffmpeg writes n segments
SplitInto(n) ==
    /\ stage = "splitting"
    /\ segments = <<>>
    /\ segments' = listing(n)
    /\ ops' = ops \o split_ops("ok")
    /\ seg_status' = [i \in 1..n |-> "pending"]
    /\ stage' = "converting"
    /\ UNCHANGED <<callback, temp_dir, seg_idx, converted, concat_input, returned, sink>>
    /\ PipelineOnly

\* convert_segments where every segment converts: the whole loop
ConvertAll ==
    /\ stage = "converting"
    /\ seg_idx = 0
    /\ callback = "none"
    /\ converted' = segments
    /\ ops' = ops \o [k \in 1..Len(segments) |-> Op("encode", segments[k], TRUE)]
    /\ seg_status' = [i \in 1..Len(segments) |-> "done"]
    /\ seg_idx' = Len(segments)
    /\ stage' = "merging"
    /\ UNCHANGED <<callback, temp_dir, segments, concat_input, returned, sink>>
    /\ PipelineOnly

\* runs of 1..MaxListed segments and a run of 1001 segments, the first count
\* at which a sequence index has more digits than the pattern pads to
NextMergeOrder ==
    \/ \E n \in (1..MaxListed) \cup {1001} : SplitInto(n)
    \/ ConvertAll
    \/ Merge(TRUE, FALSE)
    \/ \E rmtree_raises \in BOOLEAN : Finally(rmtree_raises)

NextPipeline ==
    \/ \E mkdir_raises \in BOOLEAN : Start(mkdir_raises)
    \/ Cancel
    \/ \E rmtree_raises \in BOOLEAN : Finally(rmtree_raises)
    \/ \E outcome \in {"ok", "no_duration", "split_failed"}, n \in 1..MaxSegments,
          raises \in BOOLEAN : Split(outcome, n, raises)
    \/ \E success \in BOOLEAN, raises \in BOOLEAN : ConvertSegment(success, raises)
    \/ \E success \in BOOLEAN, raises \in BOOLEAN : Merge(success, raises)

----------------------------------------------------------------------------
(* Claims about the pipeline *)

SomeSegment(status) == \E i \in 1..Len(seg_status) : seg_status[i] = status

\* C1: if at least one segment's conversion fails while the others succeed,
\* process_large_file returns False and the concat operation is never invoked
\* on the partial segment set.
C1_PartialFailureFailsWithoutMerge ==
    (SomeSegment("failed") /\ SomeSegment("done") /\ ~SomeSegment("pending")) =>
        /\ concat_input = None
        /\ stage \in {"done", "failed"} => returned = FALSE

\* C19: in every successful run that was given a progress sink, the values
\* delivered to the sink are non-decreasing and the last one is exactly 100.
C19_ProgressMonotoneTo100 ==
    (stage = "done" /\ callback # "none") =>
        /\ \A i \in 1..(Len(sink) - 1) : sink[i] <= sink[i + 1]
        /\ sink # <<>>
        /\ sink[Len(sink)] = 100 * 10 * Len(segments)

C19_Witness ==
    /\ stage = "done"
    /\ callback = "raises"
    /\ Len(segments) >= 2
    /\ Len(sink) >= 3
    /\ Len(sink) < Len(segments) + 2
    /\ SomeSegment("failed")

\* C20: on every exit path of process_large_file the scratch directory, and
\* with it every segment file, no longer exists when the call has ended.
C20_ScratchRemovedOnExit ==
    stage \in {"done", "failed", "cancelled"} => ~temp_dir

\* the positions in ops of the operations of one kind
OpsOf(kind) == {i \in 1..Len(ops) : ops[i].op = kind}

\* C32: every value handed to the progress sink lies in [0,100] and in the
\* band of the stage that produced it: 0.2 p in 0..20 for the split,
\* 20 + 0.7 p in 20..90 for the conversion, 90 + 0.1 p in 90..100 for the merge
\* (values are scaled by 10 * total_segments).
C32_ProgressWithinStageBand ==
    [][Len(sink') > Len(sink) =>
          LET v == sink'[Len(sink')]
              n == Len(segments')
              unit == 10 * n
          IN  /\ Len(sink') = Len(sink) + 1
              /\ 0 <= v /\ v <= 100 * unit
              /\ stage \in {"splitting", "converting", "merging"}
              /\ stage = "splitting" => 0 <= v /\ v <= 20 * unit
              /\ stage = "converting" => 20 * unit <= v /\ v <= 90 * unit
              /\ stage = "merging" => 90 * unit <= v /\ v <= 100 * unit
      ]_vars

\* a successful run of several segments whose sink received a value from
\* each stage and from every segment
C32_Witness ==
    /\ stage = "done"
    /\ returned = TRUE
    /\ Len(segments) >= 2
    /\ Len(sink) = Len(segments) + 2

SinkRaised == \E i \in OpsOf("sink") : ~ops[i].ok

\* what makes a run with a sink that never raises return False: mkdir, the
\* probe, the split or the concat failed, or no segment was converted
ExternalFailure ==
    \/ \E i \in 1..Len(ops) : ops[i].op \in {"mkdir", "probe", "split", "concat"} /\ ~ops[i].ok
    \/ OpsOf("encode") # {} /\ \A i \in OpsOf("encode") : ~ops[i].ok

\* C21: an exception raised by the progress sink is swallowed: the run
\* returns what it would return with a sink that never raises, that is False
\* exactly when an external operation failed.
C21_SinkErrorsSwallowed ==
    (stage \in {"done", "failed"} /\ SinkRaised) =>
        (returned = FALSE <=> ExternalFailure)

ProbeFailed == \E i \in OpsOf("probe") : ~ops[i].ok

\* C22: when the probe reports no duration, process_large_file returns
\* False and invokes neither the split nor an encode nor the concat.
C22_NoDurationFailsAtOnce ==
    ProbeFailed =>
        /\ stage \in {"returning", "failed"}
        /\ returned = FALSE
        /\ OpsOf("split") = {}
        /\ OpsOf("encode") = {}
        /\ OpsOf("concat") = {}

C22_Witness ==
    /\ ProbeFailed
    /\ stage = "failed"
    /\ returned = FALSE
    /\ ~temp_dir

\* a stage has failed: the probe or the split failed, or (the convert stage)
\* the conversion of a segment failed, or the concat failed
StageFailed(kinds) == \E i \in 1..Len(ops) : ops[i].op \in kinds /\ ~ops[i].ok

\* C23: the stages run in the order split, convert, merge: no encode before
\* a successful split, the concat only after every encode, every external
\* operation at most once, and after a failed stage no operation of a later
\* stage is invoked and the run ends failed.
C23_StagesInOrderAbortOnFailure ==
    /\ \A k \in {"probe", "split", "concat"} : Cardinality(OpsOf(k)) <= 1
    /\ \A i, j \in OpsOf("encode") : ops[i].seg = ops[j].seg => i = j
    /\ \A i \in OpsOf("encode") : \E j \in OpsOf("split") : j < i /\ ops[j].ok
    /\ \A i \in OpsOf("concat") :
          /\ \A j \in OpsOf("encode") : j < i
          /\ Cardinality(OpsOf("encode")) = Len(segments)
    /\ StageFailed({"probe", "split"}) => OpsOf("encode") = {}
    /\ StageFailed({"probe", "split", "encode"}) => OpsOf("concat") = {}
    /\ (stage \in {"done", "failed"} /\ StageFailed({"probe", "split", "encode", "concat"}))
          => stage = "failed"

\* convert_segments has returned its list to process_large_file
ConvertReported ==
    \/ stage = "merging"
    \/ stage \in {"returning", "done", "failed"} /\ OpsOf("encode") # {}

\* C30: the convert stage attempts the conversion of every segment of the
\* split exactly once, whatever the outcome of the other segments, and
\* reports its result only after all attempts.
C30_EverySegmentAttemptedOnce ==
    /\ \A i, j \in OpsOf("encode") : ops[i].seg = ops[j].seg => i = j
    /\ \A i \in OpsOf("encode") : \E k \in 1..Len(segments) : segments[k] = ops[i].seg
    /\ ConvertReported =>
          \A k \in 1..Len(segments) : \E i \in OpsOf("encode") : ops[i].seg = segments[k]

C30_Witness ==
    /\ stage = "merging"
    /\ Len(segments) = MaxSegments
    /\ \E i \in OpsOf("encode") : ops[i].seg = segments[1] /\ ~ops[i].ok
    /\ \E i \in OpsOf("encode") : ops[i].seg = segments[MaxSegments] /\ ops[i].ok

\* C18: the merge concatenates the converted segments in ascending numeric
\* sequence index, for any number of segments.
C18_MergeInNumericOrder ==
    stage = "done" =>
        \A i \in 1..(Len(concat_input) - 1) : concat_input[i] < concat_input[i + 1]

----------------------------------------------------------------------------
(* BatchProcessor (api/utils/batch.py) *)

\* the largest max_concurrent explored
MaxConcurrent == 2
\* files per batch
MaxFiles == 2

BatchIds == {"b1", "b2"}

\* what a converter_func can do: return a path, raise an Exception, or end
\* with an exception that is not an Exception (asyncio.CancelledError)
ConverterOutcomes == {"returns", "raises", "cancelled"}

IdleBatch ==
    /\ max_concurrent = 0
    /\ semaphore = 0
    /\ batches = <<>>
    /\ tasks = <<>>

\* BatchProcessor(max_concurrent)
InitBatch ==
    /\ max_concurrent \in 1..MaxConcurrent
    /\ semaphore = max_concurrent
    /\ batches = <<>>
    /\ tasks = <<>>

BatchJob(total_files) ==
    [total_files |-> total_files, completed_files |-> 0, failed_files |-> 0,
     status |-> "processing", files |-> [i \in 1..total_files |-> "pending"]]

\* asyncio.Semaphore.locked
locked(value) == value = 0

\* process_batch up to its await of gather: the batch is registered and one
\* task per file is created
ProcessBatch(batch_id, total_files) ==
    /\ batch_id \notin DOMAIN batches
    /\ batches' = [b \in (DOMAIN batches) \cup {batch_id} |->
                      IF b = batch_id THEN BatchJob(total_files) ELSE batches[b]]
    /\ tasks' = [t \in (DOMAIN tasks) \cup {<<batch_id, i>> : i \in 1..total_files} |->
                    IF t \in DOMAIN tasks THEN tasks[t] ELSE "created"]
    /\ UNCHANGED <<max_concurrent, semaphore>>
    /\ BatchOnly

\* _process_single_file from its start into converter_func: the task gets
\* the semaphore, marks its file as converting and calls the converter
Enter(batch_id, file_idx) ==
    /\ <<batch_id, file_idx>> \in DOMAIN tasks
    /\ tasks[<<batch_id, file_idx>>] = "created"
    /\ ~locked(semaphore)
    /\ semaphore' = semaphore - 1
    /\ batches' = [batches EXCEPT ![batch_id].files[file_idx] = "converting"]
    /\ tasks' = [tasks EXCEPT ![<<batch_id, file_idx>>] = "converting"]
    /\ UNCHANGED max_concurrent
    /\ BatchOnly

\* the converter ends and _process_single_file runs to its end: the file is
\* marked completed, or failed if an Exception was raised; any other
\* exception passes the except clause; the semaphore is released either way
ConverterEnds(batch_id, file_idx, outcome) ==
    /\ <<batch_id, file_idx>> \in DOMAIN tasks
    /\ tasks[<<batch_id, file_idx>>] = "converting"
    /\ batches' =
          CASE outcome = "returns" ->
                 [batches EXCEPT ![batch_id].files[file_idx] = "completed",
                                 ![batch_id].completed_files = @ + 1]
            [] outcome = "raises" ->
                 [batches EXCEPT ![batch_id].files[file_idx] = "failed",
                                 ![batch_id].failed_files = @ + 1]
            [] outcome = "cancelled" -> batches
    /\ semaphore' = semaphore + 1
    /\ tasks' = [tasks EXCEPT ![<<batch_id, file_idx>>] = "done"]
    /\ UNCHANGED max_concurrent
    /\ BatchOnly

\* gather(*tasks, return_exceptions=True) returns when every task of the
\* batch has ended, and process_batch marks the batch completed
GatherReturns(batch_id) ==
    /\ batch_id \in DOMAIN batches
    /\ batches[batch_id].status = "processing"
    /\ \A i \in 1..batches[batch_id].total_files : tasks[<<batch_id, i>>] = "done"
    /\ batches' = [batches EXCEPT ![batch_id].status = "completed"]
    /\ UNCHANGED <<max_concurrent, semaphore, tasks>>
    /\ BatchOnly

NextBatch ==
    \/ \E b \in BatchIds, n \in 1..MaxFiles : ProcessBatch(b, n)
    \/ \E b \in BatchIds, i \in 1..MaxFiles : Enter(b, i)
    \/ \E b \in BatchIds, i \in 1..MaxFiles, outcome \in ConverterOutcomes :
          ConverterEnds(b, i, outcome)
    \/ \E b \in BatchIds : GatherReturns(b)

\* the converter_func invocations in progress
InProgress == {t \in DOMAIN tasks : tasks[t] = "converting"}

\* C37: never more than max_concurrent converter invocations are in progress
\* on one processor, over all its batches, and a batch is marked completed
\* only when each of its files has ended completed or failed.
C37_BoundedAndAllProcessed ==
    /\ Cardinality(InProgress) <= max_concurrent
    /\ \A b \in DOMAIN batches :
          batches[b].status = "completed" =>
              \A i \in 1..batches[b].total_files :
                  batches[b].files[i] \in {"completed", "failed"}

----------------------------------------------------------------------------
(* Coroutines interleaved at their suspension points *)

SetCallers == {1, 2}

\* the output file a caller converted into
OutputOf(k) == "temp/out_" \o ToString(k)

NotSetting == [pc |-> "idle"]

IdleSets == setting = [k \in SetCallers |-> NotSetting]

\* set from the return of the rename (lines 193-209): stat of the cached
\* file raises FileNotFoundError if it is gone; otherwise the entry is
\* built, indexed and saved, and the cleanup runs
set_after_rename(idx, fs, saved, t, bytes, output_format, quality, metadata) ==
    LET file_hash == _compute_file_hash(bytes)
        cache_key == _generate_cache_key(file_hash, output_format, quality)
        cached_file == cache_filename(cache_key, output_format)
    IN  IF ~exists(fs, cached_file)
        THEN [index |-> idx, files |-> fs, index_file |-> saved, raised |-> TRUE]
        ELSE LET entry == CacheEntry(cache_key, file_hash, output_format, quality,
                                     cached_file, t, fs[cached_file], metadata)
                 idx1 == Put(idx, entry)
                 c == _cleanup_if_needed(idx1, fs, _save_index(idx1, saved))
             IN  [index |-> c.index, files |-> c.files, index_file |-> c.index_file,
                  raised |-> FALSE]

\* caller k calls set with its converted output and is suspended in the
\* thread that hashes the input (lines 173-177)
SetBegin(k, quality, size) ==
    \E bytes \in Contents, output_format \in Formats :
        /\ setting[k] = NotSetting
        /\ files' = create(files, OutputOf(k), size)
        /\ setting' = [setting EXCEPT ![k] =
               [pc |-> "started", bytes |-> bytes, output_format |-> output_format,
                quality |-> quality,
                cached_file |-> cache_filename(
                    _generate_cache_key(_compute_file_hash(bytes), output_format,
                                        quality), output_format)]]
        /\ last' = [op |-> "set_begin", caller |-> k]
        /\ UNCHANGED <<index, index_file, disk, now, zone, response>>
        /\ SetOnly

\* the thread of caller k renames the output file into the cache store
\* (lines 187-190)
SetRename(k) ==
    /\ setting[k].pc = "started"
    /\ files' = rename(files, OutputOf(k), setting[k].cached_file)
    /\ setting' = [setting EXCEPT ![k].pc = "renamed"]
    /\ last' = [op |-> "set_rename", caller |-> k]
    /\ UNCHANGED <<index, index_file, disk, now, zone, response>>
    /\ SetOnly

\* caller k resumes after the rename and runs set to its end
SetFinish(k) ==
    /\ setting[k].pc = "renamed"
    /\ now < MaxNow
    /\ LET a == setting[k]
           r == set_after_rename(index, files, index_file, now + 1, a.bytes,
                                 a.output_format, a.quality, "meta")
       IN  /\ index' = r.index
           /\ files' = r.files
           /\ index_file' = r.index_file
           /\ last' = [op |-> "set", caller |-> k, raised |-> r.raised,
                       cached_file |-> a.cached_file]
    /\ now' = now + 1
    /\ setting' = [setting EXCEPT ![k] = NotSetting]
    /\ UNCHANGED <<disk, zone, response>>
    /\ SetOnly

\* get and clear run from their resumption to their end without suspending
NextCacheConcurrent ==
    \/ \E k \in SetCallers : SetBegin(k, "high", MaxOutputSize - 8)
    \/ \E k \in SetCallers : SetRename(k)
    \/ \E k \in SetCallers : SetFinish(k)
    \/ Get
    \/ Clear
    \/ Tick

\* C38: calls on the same key are serialized: the artifact of a set in
\* progress is not deleted by a get, an eviction or a clear, and every set
\* started with an existing output file ends without error, with the
\* artifact of its entry in the store.
C38_SetsAreSerialized ==
    /\ \A k \in SetCallers :
          setting[k].pc = "renamed" => exists(files, setting[k].cached_file)
    /\ last.op = "set" =>
          /\ ~last.raised
          /\ \A i \in DOMAIN index :
                index[i].file_path = last.cached_file =>
                    exists(files, index[i].file_path)

----------------------------------------------------------------------------
(* Two process_large_file invocations with output files in one directory *)

Invocations == {1, 2}

\* the output files: invocation 1 writes a.mp3, invocation 2 a file of
\* another name in the same directory
OutputFiles == {[stem |-> "a", suffix |-> "wav"], [stem |-> "b", suffix |-> "mp3"]}

NoConcatFile == [there |-> FALSE, segments |-> {}]

\* line 315: output_path.parent / f"segments_{output_path.stem}"
temp_dir_of(output) == "segments_" \o output.stem

NotRunning(output) ==
    [pc |-> "idle", output |-> output, segments |-> {}, merged |-> {},
     returned |-> None]

IdleRuns ==
    /\ runs = <<>>
    /\ dirs = <<>>
    /\ concat_file = NoConcatFile

InitRuns ==
    /\ \E output \in OutputFiles :
          runs = [i \in Invocations |->
                     IF i = 1 THEN NotRunning([stem |-> "a", suffix |-> "mp3"])
                     ELSE NotRunning(output)]
    /\ dirs = <<>>
    /\ concat_file = NoConcatFile

\* lines 314-316: mkdir(parents=True, exist_ok=True) keeps what is there
RunStart(i) ==
    /\ runs[i].pc = "idle"
    /\ LET d == temp_dir_of(runs[i].output)
       IN  dirs' = [x \in (DOMAIN dirs) \cup {d} |->
                       IF x \in DOMAIN dirs THEN dirs[x] ELSE {}]
    /\ runs' = [runs EXCEPT ![i].pc = "started"]
    /\ UNCHANGED concat_file
    /\ RunOnly

\* the split and the conversion: the segments of the invocation are written
\* into its scratch directory (mkdir again, line 91), and the listing
\* output_dir.glob("segment_*.*") returns every segment found there
RunSplitConvert(i) ==
    /\ runs[i].pc = "started"
    /\ LET d == temp_dir_of(runs[i].output)
           found == (IF d \in DOMAIN dirs THEN dirs[d] ELSE {}) \cup {i}
       IN  /\ dirs' = [x \in (DOMAIN dirs) \cup {d} |->
                           IF x = d THEN found ELSE dirs[x]]
           /\ runs' = [runs EXCEPT ![i].pc = "converted", ![i].segments = found]
    /\ UNCHANGED concat_file
    /\ RunOnly

\* merge_segments up to the start of the concat process (lines 262-278):
\* the list is written to output_path.parent / "concat_list.txt"
RunWriteList(i) ==
    /\ runs[i].pc = "converted"
    /\ concat_file' = [there |-> TRUE, segments |-> runs[i].segments]
    /\ runs' = [runs EXCEPT ![i].pc = "listed"]
    /\ UNCHANGED dirs
    /\ RunOnly

\* the concat process of invocation i reads concat_list.txt and the segments
\* it names; it fails if the list or a segment is gone
RunConcat(i) ==
    /\ runs[i].pc = "listed"
    /\ LET ok == /\ concat_file.there
                 /\ \A o \in concat_file.segments :
                       \E d \in DOMAIN dirs : o \in dirs[d]
       IN  runs' = [runs EXCEPT ![i].pc = "merged",
                                ![i].merged = IF ok THEN concat_file.segments ELSE {},
                                ![i].returned = ok]
    /\ UNCHANGED <<dirs, concat_file>>
    /\ RunOnly

\* line 281: concat_file.unlink(missing_ok=True), then the finally block
\* removes the scratch directory if it exists (lines 364-372)
RunEnds(i) ==
    /\ runs[i].pc = "merged"
    /\ concat_file' = NoConcatFile
    /\ dirs' = [x \in (DOMAIN dirs) \ {temp_dir_of(runs[i].output)} |-> dirs[x]]
    /\ runs' = [runs EXCEPT ![i].pc = "done"]
    /\ RunOnly

NextConcurrentRuns ==
    \/ \E i \in Invocations : RunStart(i)
    \/ \E i \in Invocations : RunSplitConvert(i)
    \/ \E i \in Invocations : RunWriteList(i)
    \/ \E i \in Invocations : RunConcat(i)
    \/ \E i \in Invocations : RunEnds(i)

\* C39: two invocations with different output files in one directory do not
\* interfere: each merge concatenates exactly the converted segments of its
\* own invocation, and none loses a file it still needs to the other.
C39_RunsDoNotInterfere ==
    \A i \in Invocations :
        runs[i].pc \in {"merged", "done"} =>
            /\ runs[i].returned = TRUE
            /\ runs[i].merged = {i}

----------------------------------------------------------------------------
(* Specifications *)

InitOfConcurrentRuns ==
    InitCache /\ IdleKey /\ IdleLimiter /\ IdlePipeline /\ IdleBatch /\ IdleSets
        /\ InitRuns
InitOfBatch == InitCache /\ IdleKey /\ IdleLimiter /\ IdlePipeline /\ InitBatch /\ IdleSets /\ IdleRuns
InitOfCache == InitCache /\ IdleKey /\ IdleLimiter /\ IdlePipeline /\ IdleBatch /\ IdleSets /\ IdleRuns
InitOfKey == InitCache /\ InitKey /\ IdleLimiter /\ IdlePipeline /\ IdleBatch /\ IdleSets /\ IdleRuns
InitOfLimiter == InitCache /\ IdleKey /\ InitLimiter /\ IdlePipeline /\ IdleBatch /\ IdleSets /\ IdleRuns
InitOfLimiterAnyConfig == InitCache /\ IdleKey /\ InitLimiterAnyConfig /\ IdlePipeline /\ IdleBatch /\ IdleSets /\ IdleRuns
InitOfPipeline == InitCache /\ IdleKey /\ IdleLimiter /\ InitPipeline /\ IdleBatch /\ IdleSets /\ IdleRuns
InitOfMergeOrder == InitCache /\ IdleKey /\ IdleLimiter /\ InitMergeOrder /\ IdleBatch /\ IdleSets /\ IdleRuns

SpecCache == InitOfCache /\ [][NextCache]_vars

SpecCacheCalls == InitOfCache /\ [][NextCacheCalls]_vars

SpecCacheDisk == InitOfCache /\ [][NextCacheDisk]_vars

SpecCacheRestart == InitOfCache /\ [][NextCacheRestart]_vars

SpecCacheDst == InitOfCache /\ [][NextCacheDst]_vars

SpecKey == InitOfKey /\ [][NextKey]_vars

SpecLimiter == InitOfLimiter /\ [][NextLimiter]_vars

SpecLimiterApi == InitOfLimiter /\ [][NextLimiterApi]_vars

SpecLimiterAnyConfig == InitOfLimiterAnyConfig /\ [][NextLimiter]_vars

SpecLimiterSweep == InitOfLimiter /\ [][NextLimiterSweep]_vars

SpecBatch == InitOfBatch /\ [][NextBatch]_vars

SpecCacheConcurrent == InitOfCache /\ [][NextCacheConcurrent]_vars

SpecConcurrentRuns == InitOfConcurrentRuns /\ [][NextConcurrentRuns]_vars

SpecService == InitOfLimiter /\ [][NextService]_vars

SpecMergeOrder == InitOfMergeOrder /\ [][NextMergeOrder]_vars

SpecPipeline == InitOfPipeline /\ [][NextPipeline]_vars

====
